---- MODULE Spec2Model ----
(***************************************************************************)
(* Layer / overlay / toast / confirm coordination of the Nyamo UI kernel.  *)
(*                                                                         *)
(* The repository holds two generations of the UI layer:                   *)
(*   "p0"  : src/nyamo-ui/ui.js + src/nyamo-ui/kernel.js (LayerManager     *)
(*           keeps its own activeLayer field, ToastManager evicts)         *)
(*   "v34" : src/unnamed/part_000 (LayerManager reads the active layer     *)
(*           from the StateManager, ToastManager queues)                   *)
(* Both run on the StateManager of src/kernel/nyamo-ui/state.js.           *)
(* config.impl says which generation a kernel instance is built from.      *)
(***************************************************************************)
EXTENDS Integers, Sequences, FiniteSets, TLC

\* ---------------------------------------------------------------- bounds
MaxLayers == 2        \* layer elements built during one run
MaxPending == 2       \* patches waiting in StateManager.pendingUpdates
MaxToasts == 2        \* largest config.maxToasts drawn
MaxToastCalls == 3    \* toast() calls during one run
MaxFaults == 2        \* calls whose builder throws during one run
MaxTeardownFaults == 1 \* destroy() calls that record an error during one run
MaxIdle == 2          \* idle callbacks requested and not yet run
MaxCapacity == 3      \* capacity of the buffer under test
MaxListeners == 3     \* functions that subscribe to the emitter under test
MaxFocusable == 3     \* elements of the container that can be focusable
MaxRetries == 2       \* DOMContentLoaded listeners that init() calls have left
MaxPushes == 4        \* push() calls on the buffer under test between two clear()
ErrorsCapacity == 100 \* ErrorBoundary: new CircularBuffer(100)

VARIABLES
  config,          \* kernel.config and the detected features
  initialized,     \* kernel.initialized
  state,           \* StateManager.state
  pendingUpdates,  \* StateManager.pendingUpdates
  scheduledUpdate, \* StateManager.scheduledUpdate (the handle of an idle callback)
  idleCallbacks,   \* idle callbacks requested and neither run nor cancelled
  history,         \* StateManager.history, a CircularBuffer
  snapshot,        \* an object a caller got from getState() and kept
  buf,             \* a buffer on its own: a CircularBuffer or a StateHistoryBuffer
  pushed,          \* what was pushed on buf since its last clear(), in order
  activeLayer,     \* LayerManager.activeLayer (p0 only)
  attached,        \* layer elements attached to the document
  overlay,         \* OverlayManager: element, visibility, scroll lock, pending frames
  nextId,          \* next element / Utils.generateId value
  onOpenCount,     \* per layer: invocations of its onOpen
  onCloseCount,    \* per layer: invocations of its onClose
  confirms,        \* per confirm element: promise and settle guards
  toastManager,    \* kernel.toastManager: none, the one toast() made, the one init() made
  owner,           \* per toast: the ToastManager that took the request
  children,        \* toast nodes in the document, in DOM order
  queue,           \* per ToastManager: its queue (v34)
  timers,          \* per toast: the timer pending for it
  nextToast,       \* number of toast() calls so far + 1
  shown,           \* toast requests in the order they were displayed
  stale,           \* toasts whose timer was pending when clearAll() was called
  errors,          \* ErrorBoundary.errors.count
  safeMode,        \* ErrorBoundary.safeMode
  built,           \* init() has made the managers and builders (destroy() keeps them)
  managerConfig,   \* the config object init() handed to the managers
  keyListener,     \* the keydown listener of the kernel is on the document
  pendingConfirms, \* kernel._pendingConfirms: the confirms it holds
  trigger,         \* the element T outside every layer is in the document
  focus,           \* document.activeElement: body, T, or an element inside a layer
  previousFocus,   \* FocusTrap.previousFocus of the trap that is active (v34)
  openedFrom,      \* what had focus when the most recent layer was opened
  plugin,          \* PluginManager.plugins: none, or one plugin with the uninstall hook given
  listeners,       \* EventEmitter under test: the listeners of one event, oldest first
  cache,           \* FocusableCache under test, with the one container it is asked about
  trap,            \* FocusTrap under test, on the container of the cache under test
  doc,             \* the document: body present, readyState, DOMContentLoaded listeners of init()
  log,             \* callbacks and events of the most recent handler, in order
  last,            \* the most recent handler: its name, its argument, the state it started from
  ret              \* what the most recent public call returned

vars == << config, initialized, state, pendingUpdates, scheduledUpdate, idleCallbacks,
           history, snapshot, buf, pushed, activeLayer,
           attached, overlay, nextId, onOpenCount, onCloseCount, confirms,
           toastManager, owner, children, queue, timers, nextToast, shown, stale, errors,
           safeMode, built, managerConfig, keyListener, pendingConfirms, trigger, focus,
           previousFocus, openedFrom, plugin, listeners,
           cache,
           trap,
           doc,
           log, last, ret >>

LayerIds == 1..MaxLayers
ToastIds == 1..MaxToastCalls

\* ------------------------------------------------------------ layer values
\* A layer element with what its closures hold: the builder that made it and
\* the behaviour of the caller's callbacks ("none": not given).
NoLayer == [id |-> 0, kind |-> "none", onOpen |-> "none", onClose |-> "none"]

Callbacks == {"ok", "throw"}

MkLayer(id, kind, onOpen, onClose) ==
  [id |-> id, kind |-> kind, onOpen |-> onOpen, onClose |-> onClose]

\* meta.type: sheet() passes 'sheet'; dialog(), loader() and confirm() pass 'dialog'
LayerType(L) == IF L.kind = "sheet" THEN "sheet" ELSE "dialog"

\* -------------------------------------------------------------- the world
\* All handlers are written as functions from world to world; exc is the
\* exception in flight (it skips the rest of the handler up to its catcher),
\* pushes the number of entries the handler has pushed on the history so far,
\* seen what each callback and listener the handler called found when called.
World ==
  [ config |-> config, initialized |-> initialized, state |-> state,
    pendingUpdates |-> pendingUpdates, scheduledUpdate |-> scheduledUpdate,
    idleCallbacks |-> idleCallbacks, history |-> history, snapshot |-> snapshot,
    buf |-> buf, pushed |-> pushed,
    activeLayer |-> activeLayer, attached |-> attached, overlay |-> overlay,
    nextId |-> nextId, onOpenCount |-> onOpenCount, onCloseCount |-> onCloseCount,
    confirms |-> confirms, toastManager |-> toastManager, owner |-> owner,
    children |-> children, queue |-> queue, timers |-> timers,
    nextToast |-> nextToast, shown |-> shown, stale |-> stale,
    errors |-> errors, safeMode |-> safeMode, built |-> built,
    managerConfig |-> managerConfig, keyListener |-> keyListener,
    pendingConfirms |-> pendingConfirms, trigger |-> trigger, focus |-> focus,
    previousFocus |-> previousFocus, openedFrom |-> openedFrom,
    plugin |-> plugin,
    listeners |-> listeners,
    cache |-> cache,
    trap |-> trap,
    doc |-> doc,
    log |-> << >>, last |-> last, ret |-> ret, exc |-> FALSE, pushes |-> 0,
    seen |-> << >>, inits |-> 0 ]

Becomes(w) ==
  /\ config' = w.config
  /\ initialized' = w.initialized
  /\ state' = w.state
  /\ pendingUpdates' = w.pendingUpdates
  /\ scheduledUpdate' = w.scheduledUpdate
  /\ idleCallbacks' = w.idleCallbacks
  /\ history' = w.history
  /\ snapshot' = w.snapshot
  /\ buf' = w.buf
  /\ pushed' = w.pushed
  /\ activeLayer' = w.activeLayer
  /\ attached' = w.attached
  /\ overlay' = w.overlay
  /\ nextId' = w.nextId
  /\ onOpenCount' = w.onOpenCount
  /\ onCloseCount' = w.onCloseCount
  /\ confirms' = w.confirms
  /\ toastManager' = w.toastManager
  /\ owner' = w.owner
  /\ children' = w.children
  /\ queue' = w.queue
  /\ timers' = w.timers
  /\ nextToast' = w.nextToast
  /\ shown' = w.shown
  /\ stale' = w.stale
  /\ errors' = w.errors
  /\ safeMode' = w.safeMode
  /\ built' = w.built
  /\ managerConfig' = w.managerConfig
  /\ keyListener' = w.keyListener
  /\ pendingConfirms' = w.pendingConfirms
  /\ trigger' = w.trigger
  /\ focus' = w.focus
  /\ previousFocus' = w.previousFocus
  /\ openedFrom' = w.openedFrom
  /\ plugin' = w.plugin
  /\ listeners' = w.listeners
  /\ cache' = w.cache
  /\ trap' = w.trap
  /\ doc' = w.doc
  /\ log' = w.log
  /\ last' = w.last
  /\ ret' = w.ret

\* statement sequencing: the world w, computed once, handed to the statement F
then(w, F(_)) == CHOOSE r \in {F(x) : x \in {w}} : TRUE

\* what a callback or a listener that is handed layer id finds when it looks:
\* is the layer's element in the document, does hasActiveLayer() say a layer
\* is open, is the scroll lock on, is a focus trap active
Observed(w, id) ==
  [ attached |-> \E L \in w.attached : L.id = id,
    active |-> IF w.config.impl = "p0" THEN w.activeLayer.id # 0
               ELSE w.state.activeLayer.id # 0,
    noScroll |-> w.overlay.noScroll,
    trapped |-> w.previousFocus.on # "none" ]

\* EventEmitter.emit, as seen by a listener: the event and the layer it carries
emit(w, event, id) ==
  [w EXCEPT !.log = Append(@, <<event, id>>), !.seen = Append(@, Observed(w, id))]

\* ----------------------------------------------------------------- buffers
\* what a slot of new Array(n) that was never written reads as, and what a
\* caller passes when it pushes nothing
Undefined == "undefined"

\* the items pushed on the buffer under test
Items == {"a", "b", Undefined}

\* Math.min
min(a, b) == IF a < b THEN a ELSE b

\* A JavaScript array is a sequence: the element at index k is element k + 1.
\* new Array(n); hole is what a slot that was never written reads as: undefined,
\* written in the type of the items the array is for
RECURSIVE NewArray(_, _)
NewArray(n, hole) == IF n = 0 THEN << >> ELSE Append(NewArray(n - 1, hole), hole)

\* array.slice(from, to)
slice(array, from, to) == SubSeq(array, from + 1, to)

\* CircularBuffer of src/kernel/nyamo-ui/core.js
CircularBuffer_new(size, hole) ==
  [impl |-> "core", size |-> size, buffer |-> NewArray(size, hole),
   head |-> 0, count |-> 0, hole |-> hole]

CircularBuffer_push(b, item) ==
  [b EXCEPT !.buffer[b.head + 1] = item,
            !.head = (b.head + 1) % b.size,
            !.count = min(b.count + 1, b.size)]

CircularBuffer_toArray(b) ==
  IF b.count = 0 THEN << >>
  ELSE IF b.count < b.size THEN slice(b.buffer, 0, b.count)
  ELSE slice(b.buffer, b.head, b.size) \o slice(b.buffer, 0, b.head)

CircularBuffer_clear(b) ==
  [b EXCEPT !.buffer = NewArray(b.size, b.hole), !.head = 0, !.count = 0]

\* CircularBuffer of the p0 core.js (src/unnamed/part_003)
P0_CircularBuffer_new(capacity) ==
  [impl |-> "p0", capacity |-> capacity,
   buffer |-> NewArray(capacity, Undefined), start |-> 0, length |-> 0]

P0_CircularBuffer_push(b, value) ==
  LET index == (b.start + b.length) % b.capacity
      b1 == [b EXCEPT !.buffer[index + 1] = value]
  IN IF b.length < b.capacity
     THEN [b1 EXCEPT !.length = @ + 1]
     ELSE [b1 EXCEPT !.start = (b.start + 1) % b.capacity]

\* the loop pushes a value on the result when typeof value !== 'undefined'
P0_CircularBuffer_toArray(b) ==
  SelectSeq([i \in 1..b.length |-> b.buffer[((b.start + (i - 1)) % b.capacity) + 1]],
            LAMBDA value : value # Undefined)

P0_CircularBuffer_clear(b) ==
  [b EXCEPT !.buffer = NewArray(b.capacity, Undefined), !.start = 0, !.length = 0]

\* StateHistoryBuffer (src/README.md)
StateHistoryBuffer_new(size) ==
  [impl |-> "history", size |-> size, buffer |-> NewArray(size, Undefined), index |-> 0,
   length |-> 0]

StateHistoryBuffer_push(b, value) ==
  [b EXCEPT !.buffer[b.index + 1] = value,
            !.index = (b.index + 1) % b.size,
            !.length = IF b.length < b.size THEN @ + 1 ELSE @]

StateHistoryBuffer_toArray(b) ==
  [i \in 1..b.length |-> b.buffer[((b.index - b.length + (i - 1) + b.size) % b.size) + 1]]

StateHistoryBuffer_clear(b) ==
  [b EXCEPT !.buffer = NewArray(b.size, Undefined), !.index = 0, !.length = 0]

\* the buffer under test, whichever class it is an instance of
BufferImpls == {"core", "p0", "history"}

Buffer_new(impl, capacity) ==
  IF impl = "core" THEN CircularBuffer_new(capacity, Undefined)
  ELSE IF impl = "p0" THEN P0_CircularBuffer_new(capacity)
  ELSE StateHistoryBuffer_new(capacity)

Buffer_push(b, item) ==
  IF b.impl = "core" THEN CircularBuffer_push(b, item)
  ELSE IF b.impl = "p0" THEN P0_CircularBuffer_push(b, item)
  ELSE StateHistoryBuffer_push(b, item)

Buffer_toArray(b) ==
  IF b.impl = "core" THEN CircularBuffer_toArray(b)
  ELSE IF b.impl = "p0" THEN P0_CircularBuffer_toArray(b)
  ELSE StateHistoryBuffer_toArray(b)

Buffer_clear(b) ==
  IF b.impl = "core" THEN CircularBuffer_clear(b)
  ELSE IF b.impl = "p0" THEN P0_CircularBuffer_clear(b)
  ELSE StateHistoryBuffer_clear(b)

\* the number of items the buffer holds: length getter / length field
Buffer_length(b) == IF b.impl = "core" THEN b.count ELSE b.length

\* the capacity the buffer was constructed with
Buffer_capacity(b) == IF b.impl = "p0" THEN b.capacity ELSE b.size

\* ------------------------------------------------------------ StateManager
\* A patch: the keys it sets and their values.  toasts is "same" when the patch
\* carries the array that is in state (ToastManager mutates it in place and
\* passes it back) and "fresh" when it carries a new empty array.
NoPatch == [keys |-> {}, activeLayer |-> NoLayer, activeLayerType |-> "null", toasts |-> "same"]

LayerPatch(L) == [NoPatch EXCEPT !.keys = {"activeLayer"}, !.activeLayer = L]
TypePatch(t) == [NoPatch EXCEPT !.keys = {"activeLayerType"}, !.activeLayerType = t]
ToastsPatch(a) == [NoPatch EXCEPT !.keys = {"toasts"}, !.toasts = a]

\* an Object.assign in which the keys the target has are kept
assign_first(p, q) ==
  [ keys |-> p.keys \cup q.keys,
    activeLayer |-> IF "activeLayer" \in p.keys THEN p.activeLayer ELSE q.activeLayer,
    activeLayerType |-> IF "activeLayerType" \in p.keys THEN p.activeLayerType
                        ELSE q.activeLayerType,
    toasts |-> IF "toasts" \in p.keys THEN p.toasts ELSE q.toasts ]

\* Object.assign(target, source): source's keys override
assign(p, q) ==
  [ keys |-> p.keys \cup q.keys,
    activeLayer |-> IF "activeLayer" \in q.keys THEN q.activeLayer ELSE p.activeLayer,
    activeLayerType |-> IF "activeLayerType" \in q.keys THEN q.activeLayerType
                        ELSE p.activeLayerType,
    toasts |-> IF "toasts" \in q.keys THEN q.toasts ELSE p.toasts ]

RECURSIVE assignAll(_, _)
assignAll(p, ps) == IF ps = << >> THEN p ELSE assignAll(assign(p, Head(ps)), Tail(ps))

\* the state of a new StateManager, and of one that was cleared
InitialState == [activeLayer |-> NoLayer, activeLayerType |-> "null", toasts |-> << >>]

\* _computeDiff(oldState, updates): the keys of updates whose value is not
\* identical to the old one; an array is identical to itself only
computeDiff(oldState, updates) ==
  { k \in updates.keys :
      \/ k = "activeLayer" /\ oldState.activeLayer # updates.activeLayer
      \/ k = "activeLayerType" /\ oldState.activeLayerType # updates.activeLayerType
      \/ k = "toasts" /\ updates.toasts = "fresh" }

\* undefined, where a history entry is expected
NoEntry == [undefined |-> TRUE]

\* history.push(...) of applyUpdate
recordHistory(w, oldState, updates) ==
  LET entry == IF w.config.useDiffHistory
               THEN [diff |-> computeDiff(oldState, updates)]
               ELSE [oldState |-> oldState, newState |-> w.state]
  IN [w EXCEPT !.history = CircularBuffer_push(@, entry), !.pushes = @ + 1]

\* a state that gets a new toasts array no longer shares it with the snapshot
applyUpdate(w, updates) ==
  LET s == w.state
      replaced == "toasts" \in updates.keys /\ updates.toasts = "fresh"
      s2 == [ activeLayer |-> IF "activeLayer" \in updates.keys
                              THEN updates.activeLayer ELSE s.activeLayer,
              activeLayerType |-> IF "activeLayerType" \in updates.keys
                                  THEN updates.activeLayerType ELSE s.activeLayerType,
              toasts |-> IF replaced THEN << >> ELSE s.toasts ]
      w1 == [w EXCEPT !.state = s2,
                      !.snapshot.shared = IF replaced THEN FALSE ELSE @]
  IN emit(recordHistory(w1, s, updates), "state:change", 0)

\* a setState that keeps a handle but whose callback the platform never holds
requestIdleCallback_unregistered(w) == [w EXCEPT !.scheduledUpdate = TRUE]

\* requestIdleCallback(() => this.flushUpdates(), { timeout: 50 })
requestIdleCallback(w) == [w EXCEPT !.scheduledUpdate = TRUE, !.idleCallbacks = @ + 1]

\* cancelIdleCallback(this.scheduledUpdate): the callback the handle names is
\* waiting whenever the handle is set
cancelIdleCallback(w) == [w EXCEPT !.idleCallbacks = IF @ > 0 THEN @ - 1 ELSE @]

setState(w, updates) ==
  IF w.config.batching
  THEN LET w1 == [w EXCEPT !.pendingUpdates = Append(@, updates)]
       IN IF w1.scheduledUpdate THEN w1 ELSE requestIdleCallback(w1)
  ELSE applyUpdate(w, updates)

flushUpdates(w) ==
  IF w.pendingUpdates = << >> THEN w
  ELSE applyUpdate([w EXCEPT !.pendingUpdates = << >>, !.scheduledUpdate = FALSE],
                   assignAll(NoPatch, w.pendingUpdates))

\* StateManager.clear(): the idle callback is cancelled when the platform can
StateManager_clear(w) ==
  LET w1 == IF w.scheduledUpdate /\ w.config.cancelIdleCallback
            THEN cancelIdleCallback(w) ELSE w
  IN [w1 EXCEPT !.pendingUpdates = << >>, !.scheduledUpdate = FALSE,
                !.state = InitialState, !.snapshot.shared = FALSE,
                !.history = CircularBuffer_clear(@)]

\* getState(): { ...this.state }, a new object that holds the toasts array of
\* the state
StateManager_getState(w) == w.state

getState == StateManager_getState(World)

\* getHistory()
StateManager_getHistory(w) == CircularBuffer_toArray(w.history)

getHistory == StateManager_getHistory(World)

\* state.toasts.push(...) / splice(...) on an object that getState() returned:
\* the array is the one the state holds, and the one every copy made while it
\* was in the state holds
mutateToasts(w, toasts) ==
  [w EXCEPT !.state.toasts = toasts,
            !.snapshot.now.toasts = IF w.snapshot.shared THEN toasts ELSE @]

\* a caller that has kept nothing
NoSnapshot == [taken |-> FALSE, first |-> InitialState, now |-> InitialState, shared |-> FALSE]

\* ------------------------------------------------------------------- Utils
Invoked(w, cb, id) ==
  LET w1 == emit(w, cb, id)
  IN IF cb = "onOpen"
     THEN [w1 EXCEPT !.onOpenCount[id] = @ + 1]
     ELSE [w1 EXCEPT !.onCloseCount[id] = @ + 1]

\* a safeExecute without its try/catch
safeExecute_nocatch(w, fn, cb, id) ==
  IF fn = "none" \/ id = 0 THEN w
  ELSE IF fn = "throw" THEN [Invoked(w, cb, id) EXCEPT !.exc = TRUE]
  ELSE Invoked(w, cb, id)

\* callbacks that call back into the kernel, the first time they are invoked:
\*   "closeOnce"  : () => { if (!done) { done = true; kernel.close(); } }
\*   "dialogOnce" : () => { if (!done) { done = true; kernel.dialog({...}); } }
Reentrant == {"closeOnce", "dialogOnce"}

RECURSIVE callback(_, _, _, _)

\* Utils.safeExecute(fn, ...): fn is the behaviour of the caller's callback
safeExecute(w, fn, cb, id) ==
  IF fn = "none" \/ id = 0 THEN w
  ELSE IF fn \in Reentrant
  THEN then(Invoked(w, cb, id), LAMBDA w1 : callback(w1, fn, cb, id))
  ELSE Invoked(w, cb, id)

\* what document.activeElement can be
NoFocus == [on |-> "none", id |-> 0]
OnBody == [on |-> "body", id |-> 0]
OnTrigger == [on |-> "trigger", id |-> 0]
InLayer(L) == [on |-> "layer", id |-> L.id]

\* ---------------------------------------------------------- OverlayManager
\* el: the overlay element exists; handlers: click handlers registered on it
\* through the EventManager; clickHandlerId: the manager holds the id of one
NoOverlay ==
  [el |-> FALSE, visible |-> FALSE, noScroll |-> FALSE, raf |-> 0,
   handlers |-> 0, clickHandlerId |-> FALSE]

\* new OverlayManager(...).create(); the scroll lock is a class of the body
OverlayManager_create(w) ==
  [w EXCEPT !.overlay = [NoOverlay EXCEPT !.el = TRUE, !.noScroll = w.overlay.noScroll]]

OverlayManager_show(w) ==
  IF ~w.overlay.el THEN w
  ELSE IF w.config.impl = "p0"
  THEN [w EXCEPT !.overlay.visible = TRUE, !.overlay.noScroll = TRUE]
  ELSE [w EXCEPT !.overlay.raf = @ + 1, !.overlay.noScroll = TRUE]

\* v34 also unregisters the click handler whose id it holds
OverlayManager_hide(w) ==
  IF ~w.overlay.el THEN w
  ELSE [w EXCEPT !.overlay.visible = FALSE, !.overlay.noScroll = FALSE,
                 !.overlay.handlers = IF w.overlay.clickHandlerId THEN @ - 1 ELSE @,
                 !.overlay.clickHandlerId = FALSE]

\* the requestAnimationFrame callbacks of show() (v34): each makes the overlay
\* visible and, when the manager's config says closeOnOverlayClick, registers a
\* click handler and keeps its id
OverlayManager_frame(w) ==
  IF w.managerConfig.closeOnOverlayClick
  THEN [w EXCEPT !.overlay.visible = TRUE, !.overlay.raf = 0,
                 !.overlay.handlers = @ + w.overlay.raf, !.overlay.clickHandlerId = TRUE]
  ELSE [w EXCEPT !.overlay.visible = TRUE, !.overlay.raf = 0]

\* OverlayManager.destroy(): the element leaves the document with what it
\* contains (v34 appends the layer elements to it) and with its listeners; v34
\* drops the scroll lock as well.  Frame callbacks of a destroyed manager find
\* no element, throw inside the callback and change nothing.
OverlayManager_destroy(w) ==
  IF w.config.impl = "p0"
  THEN IF ~w.overlay.el THEN w
       ELSE [w EXCEPT !.overlay = [NoOverlay EXCEPT !.noScroll = w.overlay.noScroll]]
  ELSE IF ~w.overlay.el THEN [w EXCEPT !.overlay.noScroll = FALSE]
       ELSE [w EXCEPT !.overlay = NoOverlay, !.attached = {},
                      !.focus = IF @.on = "layer" THEN OnBody ELSE @]

\* ------------------------------------------------------------- event names
OpenEvent(L) == IF LayerType(L) = "sheet" THEN "sheet:open" ELSE "dialog:open"
CloseEvent(L) == IF LayerType(L) = "sheet" THEN "sheet:close" ELSE "dialog:close"

\* ------------------------------------------------------------------- focus
\* The builders give a dialog its close button and a confirm its two buttons;
\* a sheet and a loader are built without a focusable element.
Focusable(L) == L.kind \in {"dialog", "confirm"}

\* focusables[0].focus()
focusFirst(w, L) == IF Focusable(L) THEN [w EXCEPT !.focus = InLayer(L)] ELSE w

\* element.remove(): an element that holds the focus loses it to the body
removeElement(w, L) ==
  [w EXCEPT !.attached = @ \ {L}, !.focus = IF @ = InLayer(L) THEN OnBody ELSE @]

\* el.focus(): only a focusable element that is in the document takes the focus
focusOn(w, el) ==
  IF \/ el.on = "trigger" /\ w.trigger
     \/ el.on = "layer" /\ \E L \in w.attached : L.id = el.id
  THEN [w EXCEPT !.focus = el]
  ELSE w

\* new FocusTrap(element, cache).activate()
FocusTrap_activate(w, L) == focusFirst([w EXCEPT !.previousFocus = w.focus], L)

\* focusTrap.deactivate(); focusTrap = null
FocusTrap_deactivate(w) ==
  IF w.previousFocus = NoFocus THEN w
  ELSE [focusOn(w, w.previousFocus) EXCEPT !.previousFocus = NoFocus]

\* ------------------------------------------------------- LayerManager (p0)
P0_LayerManager_close(w) ==
  IF w.activeLayer.id = 0 THEN w
  ELSE LET L == w.activeLayer
           w1 == removeElement(w, L)
           w2 == OverlayManager_hide(w1)
           w3 == setState(w2, TypePatch("null"))
       IN then(safeExecute(w3, L.onClose, "onClose", L.id),
               LAMBDA w4 : IF w4.exc THEN w4
                           ELSE [emit(w4, CloseEvent(L), L.id) EXCEPT
                                   !.activeLayer = NoLayer])

\* an open that does not close the layer that is open
P0_LayerManager_open_keep(w, L) ==
  LET w1 == OverlayManager_show(w)
      w2 == [w1 EXCEPT !.attached = @ \cup {L}, !.activeLayer = L,
                       !.openedFrom = w1.focus]
      w3 == focusFirst(setState(w2, TypePatch(LayerType(L))), L)
      w4 == safeExecute(w3, L.onOpen, "onOpen", L.id)
  IN IF w4.exc THEN w4 ELSE emit(w4, OpenEvent(L), L.id)

P0_LayerManager_open(w, L) ==
  then(IF w.activeLayer.id # 0 THEN P0_LayerManager_close(w) ELSE w,
       LAMBDA w0 :
         IF w0.exc THEN w0
         ELSE LET w1 == OverlayManager_show(w0)
                  w2 == [w1 EXCEPT !.attached = @ \cup {L}, !.activeLayer = L,
                                   !.openedFrom = w1.focus]
                  w3 == focusFirst(setState(w2, TypePatch(LayerType(L))), L)
              IN then(safeExecute(w3, L.onOpen, "onOpen", L.id),
                      LAMBDA w4 : IF w4.exc THEN w4 ELSE emit(w4, OpenEvent(L), L.id)))

P0_LayerManager_hasActiveLayer(w) == w.activeLayer.id # 0

\* ------------------------------------------------------ LayerManager (v34)
V34_LayerManager_close(w) ==
  LET L == w.state.activeLayer
  IN IF L.id = 0 THEN w
     ELSE then(safeExecute(FocusTrap_deactivate(w), L.onClose, "onClose", L.id),
               LAMBDA w1 :
                 IF w1.exc THEN w1
                 ELSE LET w2 == removeElement(w1, L)
                          w3 == OverlayManager_hide(w2)
                          w4 == setState(w3, LayerPatch(NoLayer))
                      IN emit(w4, CloseEvent(L), L.id))

V34_LayerManager_open(w, L) ==
  then(V34_LayerManager_close(w),
       LAMBDA w0 :
         IF w0.exc THEN w0
         ELSE LET w1 == setState(w0, LayerPatch(L))
              IN IF ~w1.overlay.el THEN w1
                 ELSE LET w2 == [w1 EXCEPT !.attached = @ \cup {L},
                                           !.openedFrom = w1.focus]
                          wf == IF w2.managerConfig.focusTrap
                                THEN FocusTrap_activate(w2, L) ELSE w2
                          w3 == OverlayManager_show(wf)
                      IN then(safeExecute(w3, L.onOpen, "onOpen", L.id),
                              LAMBDA w4 : IF w4.exc THEN w4
                                          ELSE emit(w4, OpenEvent(L), L.id)))

V34_LayerManager_hasActiveLayer(w) == w.state.activeLayer.id # 0

\* ---------------------------------------------------------------- dispatch
LayerManager_open(w, L) ==
  IF w.config.impl = "p0" THEN P0_LayerManager_open(w, L) ELSE V34_LayerManager_open(w, L)

LayerManager_close(w) ==
  IF w.config.impl = "p0" THEN P0_LayerManager_close(w) ELSE V34_LayerManager_close(w)

LayerManager_hasActiveLayer(w) ==
  IF w.config.impl = "p0" THEN P0_LayerManager_hasActiveLayer(w)
  ELSE V34_LayerManager_hasActiveLayer(w)

\* ------------------------------------------------------------------ kernel
\* ErrorBoundary.handleError: errors is a CircularBuffer(100)
handleError(w) ==
  emit([w EXCEPT !.errors = IF @ < ErrorsCapacity THEN @ + 1 ELSE @], "error", 0)

\* ErrorBoundary.wrap(fn)(): the catch side
wrap(w0) ==
  then(w0, LAMBDA w :
             IF ~w.exc THEN w
             ELSE [handleError(w) EXCEPT !.exc = FALSE,
                                         !.ret = IF w.safeMode THEN "undefined"
                                                 ELSE "threw"])

\* a call that is not wrapped: the exception reaches the caller
unwrapped(w0) ==
  then(w0, LAMBDA w : IF ~w.exc THEN w ELSE [w EXCEPT !.exc = FALSE, !.ret = "threw"])

\* _attachGlobalListeners(): addEventListener ignores a listener that is on
attachGlobalListeners(w) ==
  IF w.config.closeOnEscape THEN [w EXCEPT !.keyListener = TRUE] ELSE w

detachGlobalListeners(w) == [w EXCEPT !.keyListener = FALSE]

\* NyamoUIKernel.init() with the document body present: new managers and
\* builders, each manager holding the config object of this moment
LoadedDocument == [body |-> TRUE, readyState |-> "complete", listeners |-> 0]

\* the try block of init(): the managers, the builders, the listeners
init_body(w) ==
  attachGlobalListeners(
    [OverlayManager_create(w) EXCEPT !.activeLayer = NoLayer, !.toastManager = "init",
                                     !.previousFocus = NoFocus,
                                     !.managerConfig = w.config, !.built = TRUE,
                                     !.initialized = TRUE, !.inits = @ + 1])

\* without a body: one more one-shot DOMContentLoaded listener while the
\* document is loading, nothing otherwise
init_delayed(w) ==
  IF w.doc.readyState = "loading" THEN [w EXCEPT !.doc.listeners = @ + 1] ELSE w

\* an init() with no initialized check
init_again(w) == IF ~w.doc.body THEN init_delayed(w) ELSE init_body(w)

init(w) ==
  IF w.initialized THEN w
  ELSE IF ~w.doc.body THEN init_delayed(w)
  ELSE init_body(w)

returns(w0, v) == then(w0, LAMBDA w : IF w.exc THEN w ELSE [w EXCEPT !.ret = v])

kernel_init(w) == returns(init(w), "this")

NewElement(w, kind, onOpen, onClose) == MkLayer(w.nextId, kind, onOpen, onClose)

kernel_open(w, L) ==
  LayerManager_open([init(w) EXCEPT !.nextId = @ + 1], L)

kernel_dialog(w, L) == wrap(returns(kernel_open(w, L), "this"))

kernel_sheet(w, L) == wrap(returns(kernel_open(w, L), "this"))

\* dialog(null) / sheet(null): after init(), build(options) destructures null
\* and throws a TypeError, inside the function wrap() guards
build_null(w) == [init(w) EXCEPT !.exc = TRUE]

kernel_dialog_null(w) == wrap(returns(build_null(w), "this"))

kernel_sheet_null(w) == wrap(returns(build_null(w), "this"))

kernel_loader(w, show, L) ==
  IF show
  THEN LET w1 == kernel_open(w, L)
       IN wrap(returns(IF w1.exc THEN w1 ELSE emit(w1, "loader:show", 0), "this"))
  ELSE LET w1 == LayerManager_close(init(w))
       IN wrap(returns(IF w1.exc THEN w1 ELSE emit(w1, "loader:hide", 0), "this"))

kernel_close(w) ==
  unwrapped(returns(IF w.built THEN LayerManager_close(w) ELSE w, "this"))

kernel_hasActiveLayer(w) == w.built /\ LayerManager_hasActiveLayer(w)

hasActiveLayer == kernel_hasActiveLayer(World)

\* the body of a callback that calls back into the kernel, inside the
\* try/catch of safeExecute; what the kernel returns to it is dropped
callback(w, fn, cb, id) ==
  LET n == IF cb = "onOpen" THEN w.onOpenCount[id] ELSE w.onCloseCount[id]
      w1 == emit(w, fn, id)
  IN IF n # 1 THEN w
     ELSE then(IF fn = "closeOnce" THEN kernel_close(w1)
               ELSE kernel_dialog(w1, NewElement(w1, "dialog", "none", "none")),
               LAMBDA w2 : [w2 EXCEPT !.exc = FALSE, !.ret = w.ret])

\* ---------------------------------------------------- ConfirmBuilder (p0)
\* registered: the AbortController of the confirm is in abortControllers (v34)
NoConfirm ==
  [outcome |-> "none", settled |-> FALSE, aborted |-> FALSE, registered |-> FALSE]

\* a promise.finally that forgets to delete
finally_keep(w, c) == w

\* promise.finally(() => this._pendingConfirms.delete(controllerId))
finally(w, c) == [w EXCEPT !.pendingConfirms = @ \ {c}]

\* resolve / reject of a promise: only the first one counts, and it runs the
\* finally callback that confirm() attached
settle(w, c, v) ==
  IF w.confirms[c].outcome = "pending"
  THEN LET w1 == [w EXCEPT !.confirms[c].outcome = v]
       IN IF c \in w.pendingConfirms THEN finally(w1, c) ELSE w1
  ELSE w

closeCallback(w) == IF w.built THEN LayerManager_close(w) ELSE w

P0_Confirm_settle(w, c, v) ==
  IF w.confirms[c].settled THEN w
  ELSE closeCallback(settle([w EXCEPT !.confirms[c].settled = TRUE], c, v))

P0_Confirm_okClick(w, c) == P0_Confirm_settle(w, c, "true")
P0_Confirm_cancelClick(w, c) == P0_Confirm_settle(w, c, "false")
P0_Confirm_cancel(w, c) == P0_Confirm_settle(w, c, "rejected")

\* --------------------------------------------------- ConfirmBuilder (v34)
V34_Confirm_okClick(w, c) ==
  LET w1 == closeCallback(w)
  IN IF w1.exc THEN w1
     ELSE [settle(w1, c, "true") EXCEPT !.confirms[c].registered = FALSE]

V34_Confirm_cancelClick(w, c) ==
  LET w1 == closeCallback(w)
  IN IF w1.exc THEN w1
     ELSE [settle(w1, c, "false") EXCEPT !.confirms[c].registered = FALSE]

\* cancel: () => abortController.abort(), or () => {} without AbortController;
\* abort() dispatches 'abort' only the first time
V34_Confirm_cancel(w, c) ==
  IF ~w.config.abortController \/ w.confirms[c].aborted THEN w
  ELSE closeCallback(settle([w EXCEPT !.confirms[c].aborted = TRUE], c, "false"))

Confirm_okClick(w, c) ==
  IF w.config.impl = "p0" THEN P0_Confirm_okClick(w, c) ELSE V34_Confirm_okClick(w, c)

Confirm_cancelClick(w, c) ==
  IF w.config.impl = "p0" THEN P0_Confirm_cancelClick(w, c)
  ELSE V34_Confirm_cancelClick(w, c)

Confirm_cancel(w, c) ==
  IF w.config.impl = "p0" THEN P0_Confirm_cancel(w, c) ELSE V34_Confirm_cancel(w, c)

\* ConfirmBuilder.cancelAll(): p0 has an empty body; v34 aborts every
\* controller that is in abortControllers, in insertion order, and clears the map
P0_ConfirmBuilder_cancelAll(w) == w

RECURSIVE V34_abortFrom(_, _)
V34_abortFrom(w, c) ==
  IF c > MaxLayers THEN w
  ELSE IF w.confirms[c].registered
  THEN V34_abortFrom([V34_Confirm_cancel(w, c) EXCEPT !.confirms[c].registered = FALSE], c + 1)
  ELSE V34_abortFrom(w, c + 1)

V34_ConfirmBuilder_cancelAll(w) == V34_abortFrom(w, 1)

ConfirmBuilder_cancelAll(w) ==
  IF w.config.impl = "p0" THEN P0_ConfirmBuilder_cancelAll(w)
  ELSE V34_ConfirmBuilder_cancelAll(w)

\* NyamoUIKernel.confirm(): build, open, keep the promise in _pendingConfirms
\* until it settles, return it
kernel_confirm(w, L) ==
  LET w1 == [init(w) EXCEPT !.nextId = @ + 1,
                            !.confirms[L.id] =
                               [NoConfirm EXCEPT !.outcome = "pending",
                                                 !.registered = w.config.impl = "v34"
                                                                /\ w.config.abortController]]
      w2 == LayerManager_open(w1, L)
  IN IF w2.exc THEN [handleError(w2) EXCEPT !.exc = FALSE, !.ret = "rejected"]
     ELSE returns([w2 EXCEPT !.pendingConfirms = @ \cup {L.id}], "promise")

\* DialogBuilder: the close button of a dialog element
\* p0: closeCallback(), then Utils.safeExecute(options.onClose)
P0_closeButton(w, L) ==
  LET w1 == closeCallback(w)
  IN IF w1.exc THEN w1 ELSE safeExecute(w1, L.onClose, "onClose", L.id)

V34_closeButton(w, L) == closeCallback(w)

closeButton(w, L) ==
  IF w.config.impl = "p0" THEN P0_closeButton(w, L) ELSE V34_closeButton(w, L)

\* ------------------------------------------------------------ ToastManager
Managers == {"lazy", "init"}

Remove(seq, x) == SelectSeq(seq, LAMBDA y : y # x)

Contains(seq, x) == \E i \in 1..Len(seq) : seq[i] = x

\* the toast nodes in the container of manager m (p0)
Container(w, m) == SelectSeq(w.children, LAMBDA t : w.owner[t] = m)

\* while (container.children.length > max) container.removeChild(firstElementChild)
RECURSIVE Evict(_, _)
Evict(w, m) ==
  IF Len(Container(w, m)) > w.config.maxToasts
  THEN Evict([w EXCEPT !.children = Remove(@, Head(Container(w, m)))], m)
  ELSE w

P0_ToastManager_show(w, m, t) ==
  LET w1 == [w EXCEPT !.owner[t] = m, !.children = Append(@, t), !.shown = Append(@, t)]
      w2 == [Evict(w1, m) EXCEPT !.timers[t] = "duration"]
  IN emit(w2, "toast:show", t)

\* the setTimeout callback of show
P0_ToastManager_timeout(w, t) ==
  [w EXCEPT !.timers[t] = "none", !.children = Remove(@, t)]

\* clearAll: returns when the manager has no container yet
P0_ToastManager_clearAll(w, m) ==
  [w EXCEPT !.children = SelectSeq(@, LAMBDA t : w.owner[t] # m),
            !.timers = [t \in ToastIds |-> IF w.owner[t] = m THEN "none" ELSE @[t]]]

V34_ToastManager_createToast(w, m, t) ==
  LET w1 == mutateToasts([w EXCEPT !.owner[t] = m, !.children = Append(@, t),
                                    !.shown = Append(@, t)],
                         Append(w.state.toasts, t))
      w2 == setState(w1, ToastsPatch("same"))
  IN [emit(w2, "toast:show", t) EXCEPT !.timers[t] = "duration"]

V34_ToastManager_show(w, m, t) ==
  IF Len(w.state.toasts) >= w.config.maxToasts
  THEN [w EXCEPT !.owner[t] = m, !.queue[m] = Append(@, t)]
  ELSE V34_ToastManager_createToast(w, m, t)

\* a promotion that takes the newest request
shift_newest(q) == q[Len(q)]

\* which queued request _hideToast promotes: queue.shift()
shift(q) == Head(q)

\* _hideToast(toast): the callback of the duration timer
V34_ToastManager_hideToast(w, t) == [w EXCEPT !.timers[t] = "hideDelay"]

\* the HIDE_DELAY callback of _hideToast
V34_ToastManager_hideTimeout(w, t) ==
  LET m == w.owner[t]
      w1 == [w EXCEPT !.timers[t] = "none", !.children = Remove(@, t)]
      w2 == IF Contains(w1.state.toasts, t)
            THEN setState(mutateToasts(w1, Remove(w1.state.toasts, t)), ToastsPatch("same"))
            ELSE w1
      w3 == emit(w2, "toast:hide", t)
  IN IF w3.queue[m] = << >> THEN w3
     ELSE LET next == shift(w3.queue[m])
          IN V34_ToastManager_createToast([w3 EXCEPT !.queue[m] = Remove(@, next)], m, next)

V34_ToastManager_clearAll(w, m) ==
  LET w1 == [w EXCEPT !.children = SelectSeq(@, LAMBDA t : ~Contains(w.state.toasts, t))]
      w2 == setState(w1, ToastsPatch("fresh"))
  IN [w2 EXCEPT !.queue[m] = << >>]

ToastManager_timeout(w, t) ==
  IF w.config.impl = "p0" THEN P0_ToastManager_timeout(w, t)
  ELSE IF w.timers[t] = "duration" THEN V34_ToastManager_hideToast(w, t)
  ELSE V34_ToastManager_hideTimeout(w, t)

\* NyamoUIKernel.toast(): makes the ToastManager when there is none
kernel_toast(w, t) ==
  LET m == IF w.toastManager = "none" THEN "lazy" ELSE w.toastManager
      w1 == [w EXCEPT !.toastManager = m, !.nextToast = @ + 1]
      w2 == IF w.config.impl = "p0" THEN P0_ToastManager_show(w1, m, t)
            ELSE V34_ToastManager_show(w1, m, t)
  IN wrap(returns(w2, "this"))

kernel_clearToasts(w) ==
  LET m == w.toastManager
      w1 == IF m = "none" THEN w
            ELSE IF w.config.impl = "p0" THEN P0_ToastManager_clearAll(w, m)
            ELSE V34_ToastManager_clearAll(w, m)
  IN unwrapped(returns(w1, "this"))

\* ----------------------------------------------------------------- destroy
\* the statements of destroy(), each skipped when an exception is in flight
destroy_close(w) == IF w.built THEN LayerManager_close(w) ELSE w

destroy_toasts(w) ==
  IF w.exc \/ w.toastManager = "none" THEN w
  ELSE IF w.config.impl = "p0" THEN P0_ToastManager_clearAll(w, w.toastManager)
  ELSE V34_ToastManager_clearAll(w, w.toastManager)

destroy_confirms(w) == IF w.exc \/ ~w.built THEN w ELSE ConfirmBuilder_cancelAll(w)

destroy_overlay(w) == IF w.exc \/ ~w.built THEN w ELSE OverlayManager_destroy(w)

\* PluginManager.clear(): unregister(name) calls plugin.uninstall(kernel) with
\* no try around it, and deletes the plugin after the hook has returned
PluginManager_clear(w) ==
  IF w.plugin = "none" THEN w
  ELSE IF w.plugin = "throw" THEN [emit(w, "uninstall", 0) EXCEPT !.exc = TRUE]
  ELSE [emit(w, "uninstall", 0) EXCEPT !.plugin = "none"]

\* FocusableCache.clear(). v34 (src/kernel/nyamo-ui/state.js): observers is a
\* WeakMap, which has no forEach, so this.observers.forEach(...) throws a
\* TypeError on every call.  p0 (the state.js the README gives): the
\* disconnection is best-effort inside a try, the maps are replaced.
FocusableCache_clear(w) ==
  IF w.config.impl = "v34" THEN [w EXCEPT !.exc = TRUE] ELSE w

destroy_plugins(w) == IF w.exc THEN w ELSE PluginManager_clear(w)

destroy_caches(w) == IF w.exc THEN w ELSE FocusableCache_clear(w)

destroy_listeners(w) == IF w.exc THEN w ELSE detachGlobalListeners(w)

destroy_state(w) ==
  IF w.exc THEN w
  ELSE [StateManager_clear(IF w.scheduledUpdate /\ w.config.cancelIdleCallback
                           THEN flushUpdates(cancelIdleCallback(w)) ELSE w)
          EXCEPT !.initialized = FALSE, !.pendingConfirms = {}]

destroy_catch(w) ==
  [(IF w.exc THEN [handleError(w) EXCEPT !.exc = FALSE] ELSE w) EXCEPT !.ret = "this"]

\* NyamoUIKernel.destroy(): the managers stay referenced by the kernel
kernel_destroy(w) ==
  then(then(then(then(then(then(then(then(destroy_close(w), destroy_toasts),
                                     destroy_confirms), destroy_overlay),
                           destroy_plugins), destroy_caches),
                 destroy_listeners), destroy_state), destroy_catch)

\* ------------------------------------------------------------------ config
Keys == {"Escape", "q"}

ShortcutNames == {"closeKey", "helpKey"}

\* An argument of setConfig: the keys it has and their values; in shortcuts,
\* "absent" stands for a key the object does not have.
NoConfigPatch ==
  [keys |-> {}, closeOnEscape |-> FALSE, closeOnOverlayClick |-> FALSE, safeMode |-> FALSE,
   shortcuts |-> [closeKey |-> "absent", helpKey |-> "absent"]]

\* { ...a, ...b } on two shortcuts objects
spreadShortcuts(a, b) == [k \in ShortcutNames |-> IF b[k] # "absent" THEN b[k] ELSE a[k]]

\* { ...this.config, ...newConfig }
spread(c, p) ==
  [c EXCEPT !.closeOnEscape = IF "closeOnEscape" \in p.keys THEN p.closeOnEscape ELSE @,
            !.closeOnOverlayClick = IF "closeOnOverlayClick" \in p.keys
                                    THEN p.closeOnOverlayClick ELSE @,
            !.safeMode = IF "safeMode" \in p.keys THEN p.safeMode ELSE @,
            !.shortcuts = IF "shortcuts" \in p.keys THEN p.shortcuts ELSE @]

\* a setSafeMode that keeps the mode the boundary has
setSafeMode_keep(w, v) == w

setSafeMode(w, v) == [w EXCEPT !.safeMode = v]

\* a setConfig that leaves the key listener as it is
P0_kernel_setConfig_nolisten(w, p) ==
  LET c == [spread(w.config, p) EXCEPT
              !.shortcuts = spreadShortcuts(w.config.shortcuts,
                              IF "shortcuts" \in p.keys THEN p.shortcuts
                              ELSE NoConfigPatch.shortcuts)]
  IN returns(setSafeMode([w EXCEPT !.config = c], c.safeMode), "this")

P0_kernel_setConfig(w, p) ==
  LET prevClose == w.config.closeOnEscape
      c == [spread(w.config, p) EXCEPT
              !.shortcuts = spreadShortcuts(w.config.shortcuts,
                              IF "shortcuts" \in p.keys THEN p.shortcuts
                              ELSE NoConfigPatch.shortcuts)]
      w1 == setSafeMode([w EXCEPT !.config = c], c.safeMode)
      w2 == IF w1.initialized /\ prevClose # c.closeOnEscape
            THEN IF c.closeOnEscape THEN attachGlobalListeners(w1)
                 ELSE detachGlobalListeners(w1)
            ELSE w1
  IN returns(w2, "this")

V34_kernel_setConfig(w, p) ==
  LET c == spread(w.config, p)
  IN returns(setSafeMode([w EXCEPT !.config = c], c.safeMode), "this")

kernel_setConfig(w, p) ==
  IF w.config.impl = "p0" THEN P0_kernel_setConfig(w, p) ELSE V34_kernel_setConfig(w, p)

\* getConfig(): a copy of the config (p0 copies shortcuts as well)
kernel_getConfig(w) ==
  [closeOnEscape |-> w.config.closeOnEscape,
   closeOnOverlayClick |-> w.config.closeOnOverlayClick,
   safeMode |-> w.config.safeMode,
   shortcuts |-> [k \in ShortcutNames |-> w.config.shortcuts[k]]]

getConfig == kernel_getConfig(World)

\* ---------------------------------------------------------- event handlers
\* _handleKeyDown(e)
P0_handleKeyDown(w, key) ==
  LET closeKey == IF w.config.shortcuts.closeKey # "absent" THEN w.config.shortcuts.closeKey
                  ELSE "Escape"
  IN IF key = closeKey /\ w.built /\ LayerManager_hasActiveLayer(w)
     THEN kernel_close(w) ELSE w

V34_handleKeyDown(w, key) ==
  IF key = "Escape" /\ w.built /\ LayerManager_hasActiveLayer(w)
  THEN kernel_close(w) ELSE w

\* a keydown event on the document
keydown(w, key) ==
  IF ~w.keyListener THEN w
  ELSE IF w.config.impl = "p0" THEN P0_handleKeyDown(w, key)
  ELSE V34_handleKeyDown(w, key)

\* _handleOverlayClick(e) with e.target the overlay element
handleOverlayClick(w) == IF w.built THEN kernel_close(w) ELSE w

RECURSIVE dispatchClick(_, _)
dispatchClick(w, n) ==
  IF n = 0 THEN w ELSE dispatchClick(handleOverlayClick(w), n - 1)

\* a click on the overlay element itself: p0 has the listener create() added,
\* v34 the handlers registered by the frame callbacks of show()
overlayClick(w) ==
  IF w.config.impl = "p0" THEN handleOverlayClick(w)
  ELSE dispatchClick(w, w.overlay.handlers)

\* ----------------------------------------------------------------- actions
Snapshot ==
  [ attached |-> attached, children |-> children, queue |-> queue, stale |-> stale,
    outcome |-> [c \in LayerIds |-> confirms[c].outcome],
    config |-> config, safeMode |-> safeMode, errors |-> errors,
    focus |-> focus, trigger |-> trigger, state |-> state,
    pendingUpdates |-> pendingUpdates, overlay |-> overlay,
    history |-> CircularBuffer_toArray(history), listeners |-> listeners,
    trap |-> trap, initialized |-> initialized ]

\* What a listener subscribed to the four layer events since construction
\* keeps: the open event that no close event has followed yet, and whether
\* every event so far came in turn (an open with none unmatched, a close of
\* the type and with the layer of the unmatched open).
NoEvent == <<"none", 0>>

LayerOpenEvents == {"dialog:open", "sheet:open"}

LayerCloseEvents == {"dialog:close", "sheet:close"}

Matches(open, close) ==
  /\ open[2] = close[2]
  /\ \/ open[1] = "dialog:open" /\ close[1] = "dialog:close"
     \/ open[1] = "sheet:open" /\ close[1] = "sheet:close"

RECURSIVE Alternation(_, _)
Alternation(t, events) ==
  IF events = << >> THEN t
  ELSE LET e == Head(events)
           t1 == IF e[1] \in LayerOpenEvents
                 THEN [open |-> e, ok |-> t.ok /\ t.open = NoEvent]
                 ELSE IF e[1] \in LayerCloseEvents
                 THEN [open |-> NoEvent, ok |-> t.ok /\ Matches(t.open, e)]
                 ELSE t
       IN Alternation(t1, Tail(events))

\* a handler has run; runs that would leave more than MaxPending patches or
\* more than MaxIdle idle callbacks waiting, or build more than MaxLayers
\* elements, are cut off
Done(w, op, arg) ==
  /\ Len(w.pendingUpdates) <= MaxPending
  /\ w.idleCallbacks <= MaxIdle
  /\ w.nextId <= MaxLayers + 1
  /\ Becomes([w EXCEPT !.last = [op |-> op, arg |-> arg, pushes |-> w.pushes,
                                 seen |-> w.seen, inits |-> w.inits,
                                 track |-> Alternation(last.track, w.log),
                                 prev |-> Snapshot]])

CanBuild == nextId <= MaxLayers

\* a call of init()
InitKernel ==
  \E w \in {kernel_init(World)} :
    /\ w.doc.listeners <= MaxRetries
    /\ Done(w, "init", 0)

\* the parser reaches the body while the document is loading
BodyParsed ==
  /\ doc.readyState = "loading" /\ ~doc.body
  /\ \E w \in {[World EXCEPT !.doc.body = TRUE]} : Done(w, "body", 0)

\* DOMContentLoaded: the document is parsed; the { once: true } listeners
\* run one after the other, each calls init(), and they are gone afterwards
RECURSIVE runListeners(_, _)
runListeners(w, n) ==
  IF n = 0 THEN w ELSE then(init(w), LAMBDA w1 : runListeners(w1, n - 1))

DOMContentLoaded ==
  /\ doc.readyState = "loading"
  /\ \E w0 \in {[World EXCEPT !.doc = [body |-> TRUE, readyState |-> "interactive",
                                        listeners |-> 0]]} :
       \E w \in {runListeners(w0, doc.listeners)} : Done(w, "DOMContentLoaded", doc.listeners)

Dialog ==
  /\ CanBuild
  /\ \E onOpen \in Callbacks, onClose \in Callbacks :
       LET L == NewElement(World, "dialog", onOpen, onClose)
       IN Done(kernel_dialog(World, L), "dialog", L.id)

Sheet ==
  /\ CanBuild
  /\ \E onOpen \in Callbacks, onClose \in Callbacks :
       LET L == NewElement(World, "sheet", onOpen, onClose)
       IN Done(kernel_sheet(World, L), "sheet", L.id)

LoaderShow ==
  /\ CanBuild
  /\ LET L == NewElement(World, "loader", "none", "none")
     IN Done(kernel_loader(World, TRUE, L), "loader", L.id)

LoaderHide ==
  /\ Done(kernel_loader(World, FALSE, NoLayer), "loaderHide", 0)

Confirm ==
  /\ CanBuild
  /\ LET L == NewElement(World, "confirm", "none", "none")
     IN Done(kernel_confirm(World, L), "confirm", L.id)

Close ==
  /\ Done(kernel_close(World), "close", 0)

\* a click on the close button of an attached dialog (a v34 confirm has none)
ClickCloseButton ==
  /\ \E L \in attached :
       /\ L.kind \in {"dialog"} \cup (IF config.impl = "p0" THEN {"confirm"} ELSE {})
       /\ Done(unwrapped(closeButton(World, L)), "closeButton", L.id)

\* clicks on the buttons of an attached confirm
ClickOK ==
  /\ \E L \in attached :
       /\ L.kind = "confirm"
       /\ LET c == L.id IN Done(unwrapped(Confirm_okClick(World, c)), "okClick", c)

ClickCancel ==
  /\ \E L \in attached :
       /\ L.kind = "confirm"
       /\ LET c == L.id IN Done(unwrapped(Confirm_cancelClick(World, c)), "cancelClick", c)

\* a call of the cancel() of a confirm controller, at any time after build
CancelConfirm ==
  /\ \E c \in LayerIds :
       /\ confirms[c].outcome # "none"
       /\ Done(unwrapped(Confirm_cancel(World, c)), "cancel", c)

\* the idle callback requested by setState
IdleFlush ==
  /\ idleCallbacks > 0
  /\ \E w \in {flushUpdates([World EXCEPT !.idleCallbacks = @ - 1])} :
       Done(w, "idle", 0)

\* an animation frame: the callbacks requested by OverlayManager.show (v34)
AnimationFrame ==
  /\ overlay.raf > 0
  /\ Done(OverlayManager_frame(World), "frame", 0)

Toast ==
  /\ nextToast <= MaxToastCalls
  /\ Done(kernel_toast(World, nextToast), "toast", nextToast)

\* a toast timer expires
TimerFires ==
  /\ \E t \in ToastIds :
       /\ timers[t] # "none"
       /\ Done(ToastManager_timeout(World, t), "timer", t)

ClearToasts ==
  /\ LET w == [World EXCEPT !.stale = @ \cup {t \in ToastIds : timers[t] # "none"}]
     IN Done(kernel_clearToasts(w), "clearToasts", 0)

\* destroy(); the timers that are pending at the call are remembered.  Runs
\* in which destroy() records an error are followed while fewer than
\* MaxTeardownFaults errors are on record.
Destroy ==
  \E w0 \in {[World EXCEPT !.stale = @ \cup {t \in ToastIds : timers[t] # "none"}]} :
    \E w \in {kernel_destroy(w0)} :
      /\ w.errors = errors \/ errors < MaxTeardownFaults
      /\ Done(w, "destroy", 0)

\* the arguments of setConfig that are drawn
EscapePatches ==
  { [NoConfigPatch EXCEPT !.keys = {"closeOnEscape"}, !.closeOnEscape = b] : b \in BOOLEAN }

ClickPatches ==
  { [NoConfigPatch EXCEPT !.keys = {"closeOnOverlayClick"}, !.closeOnOverlayClick = b] :
      b \in BOOLEAN }

ShortcutPatches ==
  { [NoConfigPatch EXCEPT !.keys = {"shortcuts"}, !.shortcuts.closeKey = k] : k \in Keys }
  \cup { [NoConfigPatch EXCEPT !.keys = {"shortcuts"}, !.shortcuts.helpKey = "h"] }

SafeModePatches ==
  { [NoConfigPatch EXCEPT !.keys = {"safeMode"}, !.safeMode = b] : b \in BOOLEAN }

SetCloseOnEscape ==
  \E p \in EscapePatches :
    \E w \in {kernel_setConfig(World, p)} : Done(w, "setConfig", p)

SetCloseOnOverlayClick ==
  \E p \in ClickPatches :
    \E w \in {kernel_setConfig(World, p)} : Done(w, "setConfig", p)

SetShortcuts ==
  \E p \in ShortcutPatches :
    \E w \in {kernel_setConfig(World, p)} : Done(w, "setConfig", p)

SetSafeMode ==
  \E p \in SafeModePatches :
    \E w \in {kernel_setConfig(World, p)} : Done(w, "setConfig", p)

\* dialog() with no callbacks
OpenDialog ==
  /\ CanBuild
  /\ LET L == NewElement(World, "dialog", "none", "none")
     IN Done(kernel_dialog(World, L), "dialog", L.id)

\* dialog() with an onOpen or an onClose that calls back into the kernel
DialogReentrant ==
  /\ CanBuild
  /\ \E onOpen \in Reentrant \cup {"none"}, onClose \in Reentrant \cup {"none"} :
       /\ onOpen # "none" \/ onClose # "none"
       /\ \E w \in {kernel_dialog(World, NewElement(World, "dialog", onOpen, onClose))} :
            Done(w, "dialog", nextId)

\* dialog(null), sheet(null)
DialogNull ==
  /\ errors < MaxFaults
  /\ \E w \in {kernel_dialog_null(World)} : Done(w, "dialog", 0)

SheetNull ==
  /\ errors < MaxFaults
  /\ \E w \in {kernel_sheet_null(World)} : Done(w, "sheet", 0)

\* a key is pressed
KeyDown ==
  \E key \in Keys :
    \E w \in {unwrapped(keydown(World, key))} : Done(w, "keydown", key)

\* the user clicks on the backdrop, which can be hit while it is displayed
OverlayClick ==
  /\ overlay.el /\ overlay.visible
  /\ Done(unwrapped(overlayClick(World)), "overlayClick", 0)

\* the user moves the focus to T
FocusT ==
  /\ trigger /\ focus # OnTrigger
  /\ Done([World EXCEPT !.focus = OnTrigger], "focusT", 0)

\* the page removes T from the document
RemoveT ==
  /\ trigger
  /\ Done([World EXCEPT !.trigger = FALSE, !.focus = IF @ = OnTrigger THEN OnBody ELSE @],
          "removeT", 0)

\* the patches a caller of stateManager.setState() passes
Patches ==
  { TypePatch(t) : t \in {"dialog", "sheet"} }
  \cup { ToastsPatch("fresh") }
  \cup { [NoPatch EXCEPT !.keys = {"activeLayerType", "toasts"},
                         !.activeLayerType = "loader", !.toasts = "fresh"] }

\* direct calls on the StateManager
StoreSetState ==
  \E p \in Patches :
    \E w \in {setState(World, p)} : Done(w, "setState", p)

StoreFlush ==
  \E w \in {flushUpdates(World)} : Done(w, "flush", 0)

StoreClear ==
  \E w \in {StateManager_clear(World)} : Done(w, "clear", 0)

\* kernel.use(plugin) with a plugin that is not registered yet
PluginHooks == {"ok", "throw"}

PluginManager_register(w, hook) == [emit(w, "install", 0) EXCEPT !.plugin = hook]

Use ==
  /\ plugin = "none"
  /\ \E hook \in PluginHooks :
       \E w \in {returns(PluginManager_register(World, hook), "this")} : Done(w, "use", 0)

\* -------------------------------------------------- the cache under test
\* One container.  dom is the set of its elements that a scan finds,
\* numbered in document order; has/list is the WeakMap entry of the container;
\* observing: a MutationObserver is connected; pending: a mutation record is
\* queued for its callback; got: what the last get() returned.
ElementIds == 1..MaxFocusable

\* Array.from(container.querySelectorAll(FOCUSABLE_SELECTORS)): document order
scan(S) ==
  [i \in 1..Cardinality(S) |-> CHOOSE x \in S : Cardinality({y \in S : y < x}) = i - 1]

FocusableCache_new(supported, S) ==
  [ mutationObserver |-> supported, dom |-> S, has |-> FALSE, list |-> << >>,
    observing |-> FALSE, pending |-> FALSE, got |-> << >> ]

\* the attributes a scan depends on: the selectors of core.js; the P0 scan
\* also looks at the type, contenteditable and aria-hidden attributes
ScanAttributes(impl) ==
  IF impl = "v34" THEN {"disabled", "tabindex", "href"}
  ELSE {"disabled", "tabindex", "href", "type", "contenteditable", "aria-hidden"}

\* what the connected observer is told about: childList and subtree always;
\* state.js filters the attributes, the P0 observer takes all of them
ObservedMutations(impl) ==
  IF impl = "v34" THEN {"childList", "disabled", "tabindex", "href"}
  ELSE {"childList", "class"} \cup ScanAttributes("p0")

Mutations == {"childList", "class"} \cup ScanAttributes("p0")

FocusableCache_refresh(w) ==
  [w EXCEPT !.cache.has = TRUE, !.cache.list = scan(w.cache.dom)]

FocusableCache_observe(w) ==
  IF w.cache.observing THEN w ELSE [w EXCEPT !.cache.observing = TRUE]

\* get(container): scans and observes on a miss; observation needs the
\* platform's MutationObserver
FocusableCache_get(w) ==
  LET w1 == IF w.cache.has THEN w
            ELSE IF w.cache.mutationObserver
                 THEN FocusableCache_observe(FocusableCache_refresh(w))
                 ELSE FocusableCache_refresh(w)
  IN [w1 EXCEPT !.cache.got = w1.cache.list]

\* unobserve(container) / unregisterContainer(container): disconnect() drops
\* the records that are queued
FocusableCache_unobserve(w) ==
  [w EXCEPT !.cache.observing = FALSE, !.cache.pending = FALSE,
            !.cache.has = FALSE, !.cache.list = << >>]

\* the observer's callback
FocusableCache_callback(w) == FocusableCache_refresh([w EXCEPT !.cache.pending = FALSE])

\* a script changes the container: an element is inserted or removed, or an
\* attribute of an element is changed; the scan result changes when the
\* attribute is one the scan depends on
mutate(w, kind, el) ==
  LET changes == kind = "childList" \/ kind \in ScanAttributes(w.config.impl)
      S == IF ~changes THEN w.cache.dom
           ELSE IF el \in w.cache.dom THEN w.cache.dom \ {el} ELSE w.cache.dom \cup {el}
  IN [w EXCEPT !.cache.dom = S,
               !.cache.pending = @ \/ (w.cache.observing
                                        /\ kind \in ObservedMutations(w.config.impl))]

\* --------------------------------------------------- the trap under test
\* document.activeElement: one of the container's elements, the container
\* itself (or a descendant no scan finds), or an element outside of it
TheContainer == 0

Outside == MaxFocusable + 1

TrapKeys == {"Tab", "Shift+Tab", "Enter"}

\* el.focus(): an element takes the focus when it is in the document and
\* focusable
Trap_focus(w, el) ==
  IF el \in w.cache.dom THEN [w EXCEPT !.trap.activeElement = el] ELSE w

\* FocusTrap.activate(): addEventListener ignores a listener that is on
Trap_activate(w) ==
  LET w1 == FocusableCache_get(w)
      focusable == w1.cache.got
      w2 == IF Len(focusable) > 0 THEN Trap_focus(w1, focusable[1]) ELSE w1
  IN [w2 EXCEPT !.trap.listening = TRUE]

\* FocusTrap.deactivate(): previousFocus is the element outside that had the
\* focus when the trap was made
Trap_deactivate(w) ==
  [FocusableCache_unobserve(w) EXCEPT !.trap.listening = FALSE,
                                      !.trap.activeElement = Outside]

\* FocusTrap.handleKeyDown(e)
FocusTrap_handleKeyDown(w, key) ==
  IF key \notin {"Tab", "Shift+Tab"} THEN w
  ELSE LET w1 == FocusableCache_get(w)
           focusable == w1.cache.got
       IN IF Len(focusable) = 0 THEN w1
          ELSE LET firstFocusable == focusable[1]
                   lastFocusable == focusable[Len(focusable)]
               IN IF key = "Shift+Tab"
                  THEN IF w1.trap.activeElement = firstFocusable
                       THEN Trap_focus([w1 EXCEPT !.trap.defaultPrevented = TRUE],
                                       lastFocusable)
                       ELSE w1
                  ELSE IF w1.trap.activeElement = lastFocusable
                       THEN Trap_focus([w1 EXCEPT !.trap.defaultPrevented = TRUE],
                                       firstFocusable)
                       ELSE w1

\* what the browser does with a Tab press nobody prevented: the focus goes to
\* the next (Shift: previous) focusable element of the document, which is
\* outside of the container after its last (before its first) one
defaultAction(w, key) ==
  IF w.trap.defaultPrevented \/ key \notin {"Tab", "Shift+Tab"} THEN w
  ELSE LET at == w.trap.activeElement
           after == {x \in w.cache.dom : x > at}
           before == {x \in w.cache.dom : x < at}
           to == IF at = Outside THEN Outside
                 ELSE IF key = "Tab"
                 THEN (IF after = {} THEN Outside ELSE CHOOSE x \in after : \A y \in after : x <= y)
                 ELSE (IF before = {} THEN Outside ELSE CHOOSE x \in before : \A y \in before : x >= y)
       IN [w EXCEPT !.trap.activeElement = to]

\* a key press: the keydown event reaches the listener on the container when
\* its target is inside
keydownInContainer(w, key) ==
  LET w0 == [w EXCEPT !.trap.defaultPrevented = FALSE]
      w1 == IF w0.trap.listening /\ w0.trap.activeElement # Outside
            THEN FocusTrap_handleKeyDown(w0, key) ELSE w0
  IN defaultAction(w1, key)

\* an element that stops being focusable while it has the focus loses it
blurRemoved(w) ==
  IF w.trap.activeElement \in ElementIds \ w.cache.dom
  THEN [w EXCEPT !.trap.activeElement = Outside] ELSE w

TrapActivate ==
  /\ ~cache.pending
  /\ \E w \in {Trap_activate(World)} : Done(w, "activate", 0)

TrapDeactivate ==
  /\ ~cache.pending
  /\ \E w \in {Trap_deactivate(World)} : Done(w, "deactivate", 0)

\* key presses and clicks are tasks: the queued observer callback, a
\* microtask, has run before them
TrapKeyDown ==
  /\ ~cache.pending
  /\ \E key \in TrapKeys :
       \E w \in {keydownInContainer(World, key)} : Done(w, "trapKey", key)

\* the user clicks on an element of the container, on the container or outside
TrapClick ==
  /\ ~cache.pending
  /\ \E el \in cache.dom \cup {TheContainer, Outside} :
       \E w \in {[World EXCEPT !.trap.activeElement = el]} : Done(w, "trapClick", el)

CacheGet == \E w \in {FocusableCache_get(World)} : Done(w, "cacheGet", 0)

CacheUnobserve == \E w \in {FocusableCache_unobserve(World)} : Done(w, "unobserve", 0)

Mutate ==
  \E kind \in Mutations, el \in ElementIds :
    \E w \in {blurRemoved(mutate(World, kind, el))} : Done(w, "mutate", el)

MutationCallback ==
  /\ cache.pending
  /\ \E w \in {FocusableCache_callback(World)} : Done(w, "mutationCallback", 0)

\* ------------------------------------------------ the emitter under test
\* The listeners of one event.  A Set of functions keeps insertion order, so
\* it is a sequence without repetition.  What a listener function does when it
\* is called: return, throw, or call off(event, target) (target may be itself).
ListenerIds == 1..MaxListeners

ListenerKinds ==
  {[act |-> a, target |-> 0] : a \in {"ok", "throw"}}
    \cup {[act |-> "off", target |-> t] : t \in ListenerIds}

Registered(w, id) == \E i \in 1..Len(w.listeners) : w.listeners[i].id = id

\* on(event, listener): Set.add appends a function that is not in the set
EventEmitter_on(w, id, kind) ==
  IF Registered(w, id) THEN w
  ELSE [w EXCEPT !.listeners = Append(@, [id |-> id, act |-> kind.act, target |-> kind.target])]

\* off(event, listener): Set.delete
EventEmitter_off(w, id) ==
  [w EXCEPT !.listeners = SelectSeq(@, LAMBDA L : L.id # id)]

\* one listener call inside the try of emit: the call is logged, its off() is
\* done, and what it throws is caught and only written to the console
callListener(w, L) ==
  LET w1 == emit(w, "listener", L.id)
      w2 == IF L.act = "off" THEN EventEmitter_off(w1, L.target)
            ELSE IF L.act = "throw" THEN [w1 EXCEPT !.exc = TRUE]
            ELSE w1
  IN [w2 EXCEPT !.exc = FALSE]

\* P0 core.js: for (const listener of Array.from(listeners)): the loop runs
\* over a copy taken when emit is called
RECURSIVE P0_EventEmitter_loop(_, _)
P0_EventEmitter_loop(w, copy) ==
  IF copy = << >> THEN w
  ELSE \* bound once, then passed on
       then(callListener(w, Head(copy)), LAMBDA w1 : P0_EventEmitter_loop(w1, Tail(copy)))

P0_EventEmitter_emit(w) ==
  IF w.listeners = << >> THEN [w EXCEPT !.ret = "this"]
  ELSE [P0_EventEmitter_loop(w, w.listeners) EXCEPT !.ret = "this"]

\* core.js: handlers.forEach(...) runs over the live Set: a function that is
\* deleted before its turn is not visited
RECURSIVE V34_EventEmitter_forEach(_, _)
V34_EventEmitter_forEach(w, visited) ==
  LET rest == SelectSeq(w.listeners, LAMBDA L : L.id \notin visited)
  IN IF rest = << >> THEN w
     ELSE then(callListener(w, Head(rest)),
               LAMBDA w1 : V34_EventEmitter_forEach(w1, visited \cup {Head(rest).id}))

V34_EventEmitter_emit(w) ==
  [V34_EventEmitter_forEach(w, {}) EXCEPT !.ret = "undefined"]

EventEmitter_emit(w) ==
  IF w.config.impl = "p0" THEN P0_EventEmitter_emit(w) ELSE V34_EventEmitter_emit(w)

On ==
  \E id \in ListenerIds, kind \in ListenerKinds :
    /\ ~Registered(World, id)
    /\ \E w \in {EventEmitter_on(World, id, kind)} : Done(w, "on", id)

Off ==
  \E id \in ListenerIds :
    /\ Registered(World, id)
    /\ \E w \in {EventEmitter_off(World, id)} : Done(w, "off", id)

Emit == \E w \in {unwrapped(EventEmitter_emit(World))} : Done(w, "emit", 0)

\* calls on the buffer under test; pushed is what was pushed since the last clear
BufferPush ==
  /\ Len(pushed) < MaxPushes
  /\ \E item \in Items :
       \E w \in {[World EXCEPT !.buf = Buffer_push(@, item), !.pushed = Append(@, item)]} :
         Done(w, "push", 0)

BufferClear ==
  \E w \in {[World EXCEPT !.buf = Buffer_clear(@), !.pushed = << >>]} :
    Done(w, "bufferClear", 0)

\* a caller calls getState() and keeps the object
GetState ==
  /\ ~snapshot.taken
  /\ \E w \in {[World EXCEPT !.snapshot = [taken |-> TRUE, first |-> StateManager_getState(World),
                                             now |-> StateManager_getState(World),
                                             shared |-> TRUE]]} :
       Done(w, "getState", 0)

\* ------------------------------------------------------------ initial state
\* The kernel after its constructor.  A p0 build has no idle scheduling (its
\* FeatureDetector knows no requestIdleCallback), a v34 build batches when
\* config.batchUpdates is set and requestIdleCallback is supported.
\* useDiffHistory is in the v34 defaults only.
\* shortcuts.closeKey is 'Escape' by default on p0 (DEFAULTS.CONFIG.shortcuts,
\* merged key by key by the constructor); the v34 defaults have no shortcuts.
InitAny(impls, safeModes, caps, escapes, clicks, traps, closeKeys, sizes, cancels, bufs, caches, docs) ==
  /\ config \in { c \in [ impl : impls, batching : BOOLEAN, safeMode : safeModes,
                          stateHistorySize : sizes, useDiffHistory : BOOLEAN,
                          cancelIdleCallback : cancels,
                          abortController : BOOLEAN, maxToasts : caps,
                          closeOnEscape : escapes, closeOnOverlayClick : clicks,
                          focusTrap : traps,
                          shortcuts : [closeKey : closeKeys \cup {"absent"},
                                       helpKey : {"absent"}] ] :
                    /\ c.impl = "p0" => (~c.batching /\ ~c.abortController)
                    /\ c.useDiffHistory = (c.impl = "v34")
                    /\ c.impl = "p0" => c.shortcuts.closeKey # "absent"
                    /\ (c.impl = "v34" /\ closeKeys = {"Escape"})
                         => c.shortcuts.closeKey = "absent" }
  /\ safeMode = config.safeMode
  /\ built = FALSE
  /\ managerConfig = config
  /\ keyListener = FALSE
  /\ pendingConfirms = {}
  /\ trigger = TRUE
  /\ focus = [on |-> "body", id |-> 0]
  /\ previousFocus = [on |-> "none", id |-> 0]
  /\ openedFrom = [on |-> "body", id |-> 0]
  /\ initialized = FALSE
  /\ state = InitialState
  /\ pendingUpdates = << >>
  /\ scheduledUpdate = FALSE
  /\ idleCallbacks = 0
  /\ history = CircularBuffer_new(config.stateHistorySize, [undefined |-> TRUE])
  /\ snapshot = NoSnapshot
  /\ buf \in bufs
  /\ pushed = << >>
  /\ activeLayer = NoLayer
  /\ attached = {}
  /\ overlay = NoOverlay
  /\ nextId = 1
  /\ onOpenCount = [i \in LayerIds |-> 0]
  /\ onCloseCount = [i \in LayerIds |-> 0]
  /\ confirms = [i \in LayerIds |-> NoConfirm]
  /\ toastManager = "none"
  /\ owner = [t \in ToastIds |-> "none"]
  /\ children = << >>
  /\ queue = [m \in Managers |-> << >>]
  /\ timers = [t \in ToastIds |-> "none"]
  /\ nextToast = 1
  /\ shown = << >>
  /\ stale = {}
  /\ errors = 0
  /\ plugin = "none"
  /\ listeners = << >>
  /\ cache \in caches
  /\ trap = [listening |-> FALSE, activeElement |-> MaxFocusable + 1, defaultPrevented |-> FALSE]
  /\ doc \in docs
  /\ log = << >>
  /\ last = [op |-> "new", arg |-> 0, pushes |-> 0, seen |-> << >>, inits |-> 0,
             track |-> [open |-> NoEvent, ok |-> TRUE], prev |-> Snapshot]
  /\ ret = "this"

\* no buffer is under test beside the StateManager's history, the container
\* of the cache under test is empty, and the document is loaded
InitAll(impls, safeModes, caps, escapes, clicks, traps, closeKeys, sizes, cancels) ==
  InitAny(impls, safeModes, caps, escapes, clicks, traps, closeKeys, sizes, cancels,
          {CircularBuffer_new(1, Undefined)}, {FocusableCache_new(TRUE, {})},
          {LoadedDocument})

\* a history of one entry, on a platform that can cancel an idle callback
InitFull(impls, safeModes, caps, escapes, clicks, traps, closeKeys) ==
  InitAll(impls, safeModes, caps, escapes, clicks, traps, closeKeys, {1}, {TRUE})

\* the kernel constructed with the default closeOnEscape, closeOnOverlayClick,
\* focusTrap and shortcuts
InitWith(impls, safeModes, caps) ==
  InitFull(impls, safeModes, caps, {TRUE}, {TRUE}, {TRUE}, {"Escape"})

\* layers, on either generation
InitLayer == InitWith({"p0", "v34"}, BOOLEAN, {MaxToasts})

NextLayer ==
  \/ InitKernel \/ Dialog \/ Sheet \/ LoaderShow \/ LoaderHide \/ Confirm \/ Close
  \/ ClickCloseButton \/ ClickOK \/ ClickCancel \/ CancelConfirm
  \/ IdleFlush \/ AnimationFrame

SpecLayer == InitLayer /\ [][NextLayer]_vars

\* layers, on the p0 generation (src/nyamo-ui/ui.js)
InitLayerP0 == InitWith({"p0"}, BOOLEAN, {MaxToasts})

NextLayerP0 ==
  \/ InitKernel \/ Dialog \/ Sheet \/ LoaderShow \/ LoaderHide \/ Confirm \/ Close
  \/ ClickCloseButton \/ ClickOK \/ ClickCancel \/ CancelConfirm

SpecLayerP0 == InitLayerP0 /\ [][NextLayerP0]_vars

\* toasts, on either generation
InitToast == InitWith({"p0", "v34"}, {TRUE}, 1..MaxToasts)

NextToast == InitKernel \/ Toast \/ TimerFires \/ ClearToasts \/ IdleFlush

SpecToast == InitToast /\ [][NextToast]_vars

\* toast() calls and timer expiries only
NextToastOnly == Toast \/ TimerFires \/ IdleFlush

SpecToastOnly == InitToast /\ [][NextToastOnly]_vars

\* confirms and teardown, on the p0 generation
NextConfirmP0 ==
  \/ InitKernel \/ Dialog \/ Confirm \/ Close \/ ClickCloseButton
  \/ ClickOK \/ ClickCancel \/ CancelConfirm \/ Destroy

SpecConfirmP0 == InitLayerP0 /\ [][NextConfirmP0]_vars

\* confirms and teardown, on either generation
InitTeardown == InitWith({"p0", "v34"}, {TRUE}, {1})

NextConfirm ==
  \/ InitKernel \/ Confirm \/ Close \/ ClickOK \/ ClickCancel \/ CancelConfirm
  \/ Destroy \/ IdleFlush \/ AnimationFrame

SpecConfirm == InitTeardown /\ [][NextConfirm]_vars

\* a layer, toasts and teardown, on the p0 generation
InitTeardownP0 == InitWith({"p0"}, {TRUE}, {1})

NextTeardownP0 == InitKernel \/ OpenDialog \/ Toast \/ TimerFires \/ Destroy

SpecTeardownP0 == InitTeardownP0 /\ [][NextTeardownP0]_vars

\* the close key, on the p0 generation
InitKeysP0 == InitFull({"p0"}, {TRUE}, {1}, BOOLEAN, {TRUE}, {TRUE}, Keys)

NextKeysP0 ==
  \/ InitKernel \/ OpenDialog \/ Close \/ SetCloseOnEscape \/ SetShortcuts \/ KeyDown
  \/ Destroy

SpecKeysP0 == InitKeysP0 /\ [][NextKeysP0]_vars

\* the close key, on either generation
InitKeys == InitFull({"p0", "v34"}, {TRUE}, {1}, BOOLEAN, {TRUE}, {TRUE}, Keys)

NextKeys ==
  \/ InitKernel \/ OpenDialog \/ Close \/ SetCloseOnEscape \/ SetShortcuts \/ KeyDown
  \/ Destroy \/ IdleFlush

SpecKeys == InitKeys /\ [][NextKeys]_vars

\* backdrop clicks, on either generation
InitClick == InitFull({"p0", "v34"}, {TRUE}, {1}, {TRUE}, BOOLEAN, {TRUE}, {"Escape"})

NextClick ==
  \/ InitKernel \/ OpenDialog \/ Close \/ SetCloseOnOverlayClick \/ OverlayClick
  \/ Destroy \/ IdleFlush \/ AnimationFrame

SpecClick == InitClick /\ [][NextClick]_vars

\* setConfig / getConfig, on either generation
InitConfig == InitFull({"p0", "v34"}, BOOLEAN, {1}, BOOLEAN, BOOLEAN, {TRUE}, Keys)

NextConfig ==
  \/ InitKernel \/ SetCloseOnEscape \/ SetCloseOnOverlayClick \/ SetShortcuts
  \/ SetSafeMode \/ Destroy

SpecConfig == InitConfig /\ [][NextConfig]_vars

\* focus, on either generation
InitFocus == InitFull({"p0", "v34"}, {TRUE}, {1}, {TRUE}, {TRUE}, {TRUE}, {"Escape"})

NextFocus ==
  \/ InitKernel \/ OpenDialog \/ Close \/ KeyDown \/ OverlayClick \/ FocusT \/ RemoveT
  \/ IdleFlush \/ AnimationFrame

SpecFocus == InitFocus /\ [][NextFocus]_vars

\* errors and the safe mode, on either generation
InitError == InitWith({"p0", "v34"}, BOOLEAN, {1})

NextError ==
  \/ InitKernel \/ OpenDialog \/ DialogNull \/ SheetNull \/ SetSafeMode \/ Close
  \/ IdleFlush \/ AnimationFrame

SpecError == InitError /\ [][NextError]_vars

\* callbacks that call back into the kernel, with state updates applied at once
InitReentrant ==
  /\ InitWith({"p0", "v34"}, {TRUE}, {1})
  /\ ~config.batching

NextReentrant ==
  \/ InitKernel \/ DialogReentrant \/ OpenDialog \/ Close \/ AnimationFrame

SpecReentrant == InitReentrant /\ [][NextReentrant]_vars

\* the StateManager on its own, batching or not
InitStore ==
  InitAll({"p0", "v34"}, {TRUE}, {1}, {TRUE}, {TRUE}, {TRUE}, {"Escape"}, {2}, BOOLEAN)

NextStore == StoreSetState \/ StoreFlush \/ StoreClear \/ IdleFlush

SpecStore == InitStore /\ [][NextStore]_vars

\* the batching StateManager with the platform's guarantee for
\* requestIdleCallback(callback, { timeout: 50 }): a callback that stays
\* registered is run, in an idle period or when its timeout expires
InitStoreFair ==
  /\ InitAll({"v34"}, {TRUE}, {1}, {TRUE}, {TRUE}, {TRUE}, {"Escape"}, {1}, BOOLEAN)
  /\ config.batching

SpecStoreFair == InitStoreFair /\ [][NextStore]_vars /\ WF_vars(IdleFlush)

\* layers and the overlay's frames, state updates applied at once
InitOverlay ==
  /\ InitWith({"p0", "v34"}, {TRUE}, {1})
  /\ ~config.batching

NextOverlay ==
  \/ InitKernel \/ Dialog \/ Sheet \/ Close \/ AnimationFrame

SpecOverlay == InitOverlay /\ [][NextOverlay]_vars

\* destroy() with state updates queued, on platforms with and without
\* cancelIdleCallback
InitDestroy ==
  InitAll({"p0", "v34"}, {TRUE}, {1}, {TRUE}, {TRUE}, {TRUE}, {"Escape"}, {1}, BOOLEAN)

NextDestroy ==
  \/ InitKernel \/ OpenDialog \/ Close \/ Destroy \/ IdleFlush \/ AnimationFrame

SpecDestroy == InitDestroy /\ [][NextDestroy]_vars

\* a caller that keeps what getState() returned while toasts come and go
InitSnapshot == InitWith({"p0", "v34"}, {TRUE}, {MaxToasts})

NextSnapshot == GetState \/ Toast \/ TimerFires \/ IdleFlush

SpecSnapshot == InitSnapshot /\ [][NextSnapshot]_vars

\* a ring buffer of each class, of capacity 1 to MaxCapacity, on its own
InitBuffer ==
  InitAny({"p0"}, {TRUE}, {1}, {TRUE}, {TRUE}, {TRUE}, {"Escape"}, {1}, {TRUE},
          { Buffer_new(impl, capacity) : impl \in BufferImpls, capacity \in 1..MaxCapacity },
          {FocusableCache_new(TRUE, {})}, {LoadedDocument})

NextBuffer == BufferPush \/ BufferClear

SpecBuffer == InitBuffer /\ [][NextBuffer]_vars

\* one emitter with listeners that throw and unsubscribe, of either core.js
InitEmitter == InitWith({"p0", "v34"}, {TRUE}, {1})

NextEmitter == On \/ Off \/ Emit

SpecEmitter == InitEmitter /\ [][NextEmitter]_vars

\* one cache and one container that scripts change, with and without
\* MutationObserver
InitCache ==
  /\ InitAny({"p0", "v34"}, {TRUE}, {1}, {TRUE}, {TRUE}, {TRUE}, {"Escape"}, {1}, {TRUE},
          {CircularBuffer_new(1, Undefined)},
          {FocusableCache_new(supported, {}) : supported \in BOOLEAN}, {LoadedDocument})
  /\ ~config.batching /\ (config.abortController <=> config.impl = "v34")

NextCache == CacheGet \/ CacheUnobserve \/ Mutate \/ MutationCallback

SpecCache == InitCache /\ [][NextCache]_vars

\* one focus trap on a container that scripts change
InitTrap ==
  /\ InitAny({"v34"}, {TRUE}, {1}, {TRUE}, {TRUE}, {TRUE}, {"Escape"}, {1}, {TRUE},
          {CircularBuffer_new(1, Undefined)},
          {FocusableCache_new(supported, {}) : supported \in BOOLEAN}, {LoadedDocument})
  /\ ~config.batching /\ config.abortController

NextTrap ==
  \/ TrapActivate \/ TrapDeactivate \/ TrapKeyDown \/ TrapClick
  \/ Mutate \/ MutationCallback

SpecTrap == InitTrap /\ [][NextTrap]_vars

\* init() on a document that is loading, with or without its body, or loaded
Documents ==
  [body : BOOLEAN, readyState : {"loading", "complete"}, listeners : {0}]

InitReady ==
  InitAny({"p0", "v34"}, {TRUE}, {1}, BOOLEAN, {TRUE}, {TRUE}, {"Escape"}, {1}, {TRUE},
          {CircularBuffer_new(1, Undefined)}, {FocusableCache_new(TRUE, {})}, Documents)

NextReady ==
  \/ InitKernel \/ BodyParsed \/ DOMContentLoaded \/ SetCloseOnEscape \/ Destroy

SpecReady == InitReady /\ [][NextReady]_vars

\* destroy() of a kernel with a plugin installed, state updates queued
NextPlugins ==
  \/ InitKernel \/ Use \/ OpenDialog \/ Destroy \/ IdleFlush \/ AnimationFrame

SpecPlugins == InitDestroy /\ [][NextPlugins]_vars

\* ------------------------------------------------------------- properties
OpenOps == {"dialog", "sheet", "loader", "confirm"}

Has(e) == \E i \in 1..Len(log) : log[i] = e

Pos(e) == CHOOSE i \in 1..Len(log) : log[i] = e

Before(e, f) == Has(e) /\ Has(f) /\ Pos(e) < Pos(f)

\* a callback that throws was invoked by the most recent handler
Threw ==
  \E L \in attached \cup last.prev.attached :
    \/ L.onOpen = "throw" /\ Has(<<"onOpen", L.id>>)
    \/ L.onClose = "throw" /\ Has(<<"onClose", L.id>>)

\* C1: at most one layer element is attached at any time, and after every
\* dialog(), sheet(), loader(true) or confirm() exactly the newest one is,
\* on either generation and with or without batched state updates.
C1_SingleActiveLayer ==
  /\ Cardinality(attached) <= 1
  /\ last.op \in OpenOps => \E L \in attached : attached = {L} /\ L.id = last.arg

\* C2: hasActiveLayer() is true right after dialog(), sheet() and loader(true)
\* return and false right after close() and loader(false) return.
C2_HasActiveLayerFollowsCalls ==
  /\ last.op \in {"dialog", "sheet", "loader"} => hasActiveLayer
  /\ last.op \in {"close", "loaderHide"} => ~hasActiveLayer

\* C3: when B is opened while A is open, A's onClose and A's close event come
\* before B's onOpen and B's open event, and only B stays attached (p0
\* LayerManager).
C3_CloseBeforeOpen ==
  last.op \in OpenOps =>
    \A A \in last.prev.attached :
      \E B \in attached :
        /\ B.id = last.arg
        /\ attached = {B}
        /\ Before(<<CloseEvent(A), A.id>>, <<OpenEvent(B), B.id>>)
        /\ A.onClose # "none" => Before(<<"onClose", A.id>>, <<OpenEvent(B), B.id>>)
        /\ B.onOpen # "none" => Before(<<CloseEvent(A), A.id>>, <<"onOpen", B.id>>)
        /\ (A.onClose # "none" /\ B.onOpen # "none")
             => Before(<<"onClose", A.id>>, <<"onOpen", B.id>>)

C3_Replaced ==
  /\ last.op \in OpenOps
  /\ \E A \in last.prev.attached, B \in attached :
       A.onClose # "none" /\ B.onOpen # "none" /\ B.id = last.arg

\* C4: the onOpen and the onClose of a layer each run at most once, whichever
\* way the layer is closed.
C4_CallbacksAtMostOnce ==
  \A i \in LayerIds : onOpenCount[i] <= 1 /\ onCloseCount[i] <= 1

\* C5: a throwing onOpen / onClose does not reach the caller and the transition
\* completes: after dialog() / sheet() the new layer is active, attached and
\* announced; after close() nothing is active or attached, the overlay is
\* hidden and the close was announced (p0 LayerManager).
C5_ThrowingCallbackCompletes ==
  /\ (last.op \in {"dialog", "sheet"} /\ Threw) =>
       /\ ret = "this"
       /\ hasActiveLayer
       /\ \E B \in attached :
            /\ B.id = last.arg /\ attached = {B} /\ activeLayer = B
            /\ Has(<<OpenEvent(B), B.id>>)
  /\ (last.op = "close" /\ Threw) =>
       /\ ret = "this"
       /\ ~hasActiveLayer
       /\ attached = {}
       /\ ~overlay.visible /\ ~overlay.noScroll
       /\ \A A \in last.prev.attached : Has(<<CloseEvent(A), A.id>>)

C5_OpenThrew ==
  /\ last.op \in {"dialog", "sheet"}
  /\ last.prev.attached # {}
  /\ \E B \in attached : B.id = last.arg /\ B.onOpen = "throw"
  /\ \E A \in last.prev.attached : A.onClose = "throw"

\* C6: the number of toast nodes displayed at the same time never exceeds
\* maxToasts, for any interleaving of toast(), clearToasts() and timers.
C6_ToastCap == Len(children) <= config.maxToasts

C8_QueuedWhenFull ==
  /\ (last.op = "toast" /\ Len(last.prev.children) >= config.maxToasts) =>
       /\ children = last.prev.children
       /\ Contains(queue[owner[last.arg]], last.arg)
  /\ \A i, j \in 1..Len(shown) : i < j => shown[i] < shown[j]

\* C9: when clearToasts() has returned no toast is displayed and nothing is
\* queued, it did not throw, and a timer that was pending at the call has no
\* effect when it expires: it removes nothing, promotes nothing, emits nothing.
C9_ClearAllIsFinal ==
  /\ last.op = "clearToasts" =>
       /\ ret = "this"
       /\ children = << >>
       /\ \A m \in Managers : queue[m] = << >>
  /\ (last.op = "timer" /\ last.arg \in last.prev.stale) =>
       /\ children = last.prev.children
       /\ queue = last.prev.queue
       /\ log = << >>

\* C10: an OK click, a Cancel click or a cancel() on a confirm that is settled
\* leaves its outcome, does not throw and changes nothing else: the layer
\* that is open stays open.
C10_SettlesOnce ==
  (last.op \in {"okClick", "cancelClick", "cancel"}
     /\ last.prev.outcome[last.arg] # "pending") =>
    /\ confirms[last.arg].outcome = last.prev.outcome[last.arg]
    /\ ret # "threw"
    /\ attached = last.prev.attached

\* C11: an OK click on a pending confirm resolves its promise with true, a
\* Cancel click with false; after either the confirm layer is closed
\* (hasActiveLayer() is false, nothing attached), and a confirm whose promise
\* has settled, by whichever path, is no longer in the kernel's pending-confirm
\* map (p0 ConfirmBuilder and kernel).
C11_ConfirmResolves ==
  /\ (last.op \in {"okClick", "cancelClick"} /\ last.prev.outcome[last.arg] = "pending") =>
       /\ confirms[last.arg].outcome = (IF last.op = "okClick" THEN "true" ELSE "false")
       /\ ~hasActiveLayer
       /\ attached = {}
       /\ ret # "threw"
  /\ \A c \in LayerIds :
       confirms[c].outcome \in {"true", "false", "rejected"} => c \notin pendingConfirms

C11_Resolved ==
  /\ last.op = "cancelClick"
  /\ last.prev.outcome[last.arg] = "pending"
  /\ last.arg \in pendingConfirms \cup {c \in LayerIds : confirms[c].outcome = "false"}
  /\ \E L \in last.prev.attached : L.id = last.arg
  /\ \E c \in LayerIds : c # last.arg /\ confirms[c].outcome = "true"

\* C12: when destroy() has returned, no promise of an earlier confirm() is
\* pending: every confirm that was open or in flight has been settled.
C12_DestroySettlesConfirms ==
  last.op = "destroy" => \A c \in LayerIds : confirms[c].outcome # "pending"

\* the close key the configuration names: shortcuts.closeKey, 'Escape' when absent
CloseKey ==
  IF config.shortcuts.closeKey = "absent" THEN "Escape" ELSE config.shortcuts.closeKey

\* C13: once init() has run the keydown listener is attached exactly when the
\* current closeOnEscape is true, through any sequence of setConfig() calls:
\* a press of the close key while a layer is open closes it when closeOnEscape
\* is true and leaves it open when it is false (p0 kernel).
C13_EscapeFollowsConfig ==
  /\ initialized => keyListener = config.closeOnEscape
  /\ (last.op = "keydown" /\ last.arg = CloseKey /\ last.prev.attached # {}) =>
       IF config.closeOnEscape
       THEN attached = {} /\ ~hasActiveLayer
       ELSE attached = last.prev.attached /\ hasActiveLayer

C13_ToggledAtRunTime ==
  /\ last.op = "keydown" /\ last.arg = CloseKey
  /\ last.prev.attached # {}
  /\ attached = {}
  /\ config.closeOnEscape /\ ~managerConfig.closeOnEscape

\* C14: with the key listener attached and a layer open, a key press closes the
\* layer exactly when the key is the current config.shortcuts.closeKey
\* ('Escape' when none is configured).
C14_CloseKeyIsConfigured ==
  (last.op = "keydown" /\ last.prev.attached # {} /\ keyListener) =>
    IF last.arg = CloseKey
    THEN attached = {}
    ELSE attached = last.prev.attached

\* C15: a click on the backdrop while a layer is open closes the layer when
\* closeOnOverlayClick is true and leaves it open when it is false.
C15_BackdropFollowsConfig ==
  (last.op = "overlayClick" /\ last.prev.attached # {}) =>
    IF config.closeOnOverlayClick
    THEN attached = {}
    ELSE attached = last.prev.attached

\* C16: destroy() returns the kernel without throwing, a second destroy()
\* included; when it has returned no overlay element is in the document,
\* nothing is attached and hasActiveLayer() is false; and a toast timer that
\* was scheduled before the call has no effect when it expires afterwards.
C16_DestroyIsFinal ==
  /\ last.op = "destroy" =>
       /\ ret = "this"
       /\ ~overlay.el
       /\ attached = {}
       /\ ~hasActiveLayer
  /\ (last.op = "timer" /\ last.arg \in last.prev.stale) =>
       /\ children = last.prev.children
       /\ queue = last.prev.queue
       /\ log = << >>

\* C17: after setConfig(p), getConfig() has every top-level key of p at p's
\* value and every other key at its previous value, and shortcuts is merged
\* key by key: a shortcut p does not name keeps its value.
C17_ConfigRoundTrip ==
  last.op = "setConfig" =>
    LET p == last.arg
        old == last.prev.config
        new == getConfig
    IN /\ ret = "this"
       /\ new.closeOnEscape =
            (IF "closeOnEscape" \in p.keys THEN p.closeOnEscape ELSE old.closeOnEscape)
       /\ new.closeOnOverlayClick =
            (IF "closeOnOverlayClick" \in p.keys THEN p.closeOnOverlayClick
             ELSE old.closeOnOverlayClick)
       /\ new.safeMode = (IF "safeMode" \in p.keys THEN p.safeMode ELSE old.safeMode)
       /\ \A k \in ShortcutNames :
            new.shortcuts[k] =
              (IF "shortcuts" \in p.keys /\ p.shortcuts[k] # "absent" THEN p.shortcuts[k]
               ELSE old.shortcuts[k])

\* the number of error events the most recent handler emitted
Recorded == Cardinality({i \in 1..Len(log) : log[i] = <<"error", 0>>})

\* C18: a dialog() or sheet() whose builder throws records the error exactly
\* once; it returns (undefined) when the latest safeMode given to the
\* constructor or to setConfig() is true and throws to the caller when that
\* is false; a call in which nothing throws records nothing.
C18_RecordedOnceThenSafeMode ==
  /\ (last.op \in {"dialog", "sheet"} /\ last.arg = 0) =>
       /\ errors = last.prev.errors + 1
       /\ Recorded = 1
       /\ ret = (IF config.safeMode THEN "undefined" ELSE "threw")
  /\ (last.op \in {"dialog", "sheet"} /\ last.arg # 0) =>
       /\ errors = last.prev.errors
       /\ ret = "this"

C18_ModeChangedThenThrew ==
  /\ last.op \in {"dialog", "sheet"} /\ last.arg = 0
  /\ ret = "threw"
  /\ errors = MaxFaults
  /\ config.safeMode # managerConfig.safeMode

\* C19: dialog(), sheet(), toast(), loader(), close(), destroy() and
\* setConfig() return the kernel whenever they return without throwing, and
\* confirm() returns a promise.
C19_ReturnsKernel ==
  /\ (last.op \in {"dialog", "sheet", "toast", "loader", "loaderHide", "close",
                   "destroy", "setConfig"} /\ ret # "threw") => ret = "this"
  /\ last.op = "confirm" => ret \in {"promise", "rejected"}

\* C20: a dialog() made while T has the focus moves the focus into the dialog;
\* when that dialog is closed by close(), by the close key or by a backdrop
\* click and T is still in the document, T has the focus again; closing does
\* not throw, whether T is in the document or not.
C20_FocusRestored ==
  /\ (last.op = "dialog" /\ last.prev.focus = OnTrigger /\ ret = "this") =>
       \E L \in attached : L.id = last.arg /\ focus = InLayer(L)
  /\ last.op \in {"close", "keydown", "overlayClick"} => ret # "threw"
  /\ (last.op \in {"close", "keydown", "overlayClick"}
        /\ last.prev.attached # {} /\ attached = {}
        /\ openedFrom = OnTrigger /\ trigger)
       => focus = OnTrigger

\* the last patch of the queue q that sets key k (0: none does)
LastWith(q, k) ==
  LET idx == {i \in 1..Len(q) : k \in q[i].keys}
  IN IF idx = {} THEN 0 ELSE CHOOSE i \in idx : \A j \in idx : j <= i

\* the state s with, for every key, the value of the last patch of q that sets it
MergedState(s, q) ==
  [ activeLayer |-> IF LastWith(q, "activeLayer") = 0 THEN s.activeLayer
                    ELSE q[LastWith(q, "activeLayer")].activeLayer,
    activeLayerType |-> IF LastWith(q, "activeLayerType") = 0 THEN s.activeLayerType
                        ELSE q[LastWith(q, "activeLayerType")].activeLayerType,
    toasts |-> IF LastWith(q, "toasts") = 0 THEN s.toasts
               ELSE IF q[LastWith(q, "toasts")].toasts = "fresh" THEN << >>
               ELSE s.toasts ]

\* the number of state-change events the most recent handler emitted
StateChanges == Cardinality({i \in 1..Len(log) : log[i] = <<"state:change", 0>>})

\* C21: a flushUpdates() (called directly or by the idle callback) with patches
\* queued leaves the state that the queued patches, merged in order with the
\* last one winning per key, give; it empties the queue, pushes exactly one
\* history entry and emits exactly one state-change event.  With an empty queue
\* it changes nothing, records nothing and emits nothing.
C21_FlushAppliesMerged ==
  last.op \in {"flush", "idle"} =>
    IF last.prev.pendingUpdates # << >>
    THEN /\ state = MergedState(last.prev.state, last.prev.pendingUpdates)
         /\ pendingUpdates = << >>
         /\ last.pushes = 1
         /\ Len(getHistory) = min(Len(last.prev.history) + 1, config.stateHistorySize)
         /\ StateChanges = 1
         /\ Len(log) = 1
    ELSE /\ state = last.prev.state
         /\ last.pushes = 0
         /\ getHistory = last.prev.history
         /\ log = << >>

C21_TwoPatchesOneKey ==
  /\ last.op \in {"flush", "idle"}
  /\ Len(last.prev.pendingUpdates) = 2
  /\ last.prev.pendingUpdates[1].activeLayerType = "dialog"
  /\ last.prev.pendingUpdates[2].activeLayerType = "sheet"
  /\ last.prev.state.activeLayerType = "loader"
  /\ state.activeLayerType = "sheet"

\* a callback of the most recent handler called back into the kernel
Reentered == \E i \in 1..Len(log) : log[i][1] \in Reentrant

\* C22: when a dialog() or a close() in which an onOpen / onClose callback
\* called close() or dialog() has returned, hasActiveLayer() is true if and
\* only if exactly one layer element is attached and the overlay is shown (or
\* about to be, on its next frame).
C22_ConsistentAfterReentry ==
  (last.op \in {"dialog", "close"} /\ Reentered) =>
    (hasActiveLayer <=>
       /\ Cardinality(attached) = 1
       /\ overlay.visible \/ overlay.raf > 0)

\* C23: once every animation-frame callback of OverlayManager.show() has run,
\* the overlay is visible exactly when the body has the no-scroll class and
\* exactly when hasActiveLayer() is true, and a backdrop click listener is
\* registered only while the overlay is visible.
C23_OverlayWhileOpen ==
  overlay.raf = 0 =>
    /\ overlay.visible <=> overlay.noScroll
    /\ overlay.visible <=> hasActiveLayer
    /\ overlay.handlers > 0 => overlay.visible

\* the pending-patch queue is non-empty exactly when scheduledUpdate is set
QueueIffScheduled == (pendingUpdates # << >>) <=> scheduledUpdate

\* C25: after every operation of the StateManager (setState, flushUpdates,
\* clear, the idle callback) the pending-patch queue is non-empty if and only
\* if scheduledUpdate is set, and at most one flush callback is outstanding.
C25_OneFlushOutstanding ==
  /\ QueueIffScheduled
  /\ idleCallbacks <= 1

\* C24: with batching, whenever patches are queued the queue is eventually
\* emptied, by a flush that applies them (the idle callback or a direct
\* flushUpdates()) or by clear(); no patch stays queued forever.
C24_QueuedPatchesFlushed ==
  (pendingUpdates # << >>) ~>
     (pendingUpdates = << >> /\ last.op \in {"idle", "flush", "clear"})

C24_IdleAppliesTwoPatches ==
  /\ config.batching
  /\ last.op = "idle"
  /\ Len(last.prev.pendingUpdates) = 2
  /\ pendingUpdates = << >>
  /\ state = MergedState(last.prev.state, last.prev.pendingUpdates)
  /\ state # last.prev.state

\* C26: a destroy() that finds patches queued in the state store applies them
\* (a state-change event is emitted during destroy()) and leaves the queue
\* empty with no flush scheduled, whether or not the platform supports
\* cancelIdleCallback.
C26_DestroyFlushesQueue ==
  (last.op = "destroy" /\ last.prev.pendingUpdates # << >>) =>
    /\ StateChanges >= 1
    /\ pendingUpdates = << >>
    /\ ~scheduledUpdate

\* C27: when clear() has returned no flush is scheduled and no patch is
\* pending, getState() is the initial empty state, getHistory() is empty, and
\* clear() has emitted exactly one state-change event.
C27_ClearResets ==
  last.op = "clear" =>
    /\ ~scheduledUpdate
    /\ pendingUpdates = << >>
    /\ getState = InitialState
    /\ getHistory = << >>
    /\ StateChanges = 1

\* C28: an object that getState() returned never changes afterwards, and with
\* batching a handler that only queues patches (toast(), a toast timer) leaves
\* what getState() returns as it was before the handler, for every key.
C28_SnapshotsAreStable ==
  /\ snapshot.taken => snapshot.now = snapshot.first
  /\ (config.batching /\ last.op \in {"toast", "timer", "getState"})
       => getState = last.prev.state

\* the last n elements of the sequence s
LastN(s, n) == SubSeq(s, Len(s) - n + 1, Len(s))

\* C29: after any sequence of push and clear on a buffer of capacity C of any
\* of the three classes, toArray() is the last min(n, C) items pushed since
\* the last clear, oldest first (n the number of such pushes), and the stored
\* count is min(n, C).
C29_LastItemsOldestFirst ==
  LET C == Buffer_capacity(buf)
      n == Len(pushed)
  IN /\ Buffer_toArray(buf) = LastN(pushed, min(n, C))
     /\ Buffer_length(buf) = min(n, C)

\* C30: a close() called while no layer is open has no effect: no callback
\* runs and no event is emitted, the state store is not updated (state, queue
\* and history as before, nothing pushed) and the overlay and the scroll lock
\* are as before.
C30_CloseWhenIdleIsNoOp ==
  (last.op = "close" /\ last.prev.attached = {}) =>
    /\ log = << >>
    /\ state = last.prev.state
    /\ pendingUpdates = last.prev.pendingUpdates
    /\ last.pushes = 0
    /\ getHistory = last.prev.history
    /\ overlay = last.prev.overlay
    /\ attached = {}

\* the positions in the log of the most recent handler of the events named
At(events) == {i \in 1..Len(log) : log[i][1] \in events}

\* C31: a close() of an open layer runs onClose with the focus trap already
\* deactivated and the layer's element still attached and the overlay still
\* shown, and emits the close event after onClose, with the element removed,
\* the overlay hidden and the layer cleared (hasActiveLayer() false).
C31_CloseOrder ==
  (last.op = "close" /\ last.prev.attached # {}) =>
    /\ \A i \in At({"onClose"}) :
         /\ ~last.seen[i].trapped
         /\ last.seen[i].attached
         /\ last.seen[i].noScroll
         /\ last.seen[i].active
    /\ \A j \in At({"dialog:close", "sheet:close"}) :
         /\ \A i \in At({"onClose"}) : i < j
         /\ ~last.seen[j].attached
         /\ ~last.seen[j].noScroll
         /\ ~last.seen[j].active
    /\ At({"dialog:close", "sheet:close"}) # {}
    /\ ~hasActiveLayer

\* C32: the layer events of a kernel alternate: an open event is emitted only
\* when no earlier open event is unmatched, and a close event only when an
\* open event is unmatched, and then of its type and with its layer.
C32_EventsAlternate == last.track.ok

\* the most recent handler was cancel() on a confirm that was pending
CancelledPending == last.op = "cancel" /\ last.prev.outcome[last.arg] = "pending"

\* the two policies cancel() may follow
CancelResolvesFalse == CancelledPending => confirms[last.arg].outcome = "false"

CancelRejects == CancelledPending => confirms[last.arg].outcome = "rejected"

\* C33: cancel() on a pending confirm settles its promise (resolved false or
\* rejected, never left pending) and closes the confirm's layer as a Cancel
\* click does.
C33_CancelSettles ==
  CancelledPending =>
    /\ confirms[last.arg].outcome \in {"false", "rejected"}
    /\ ~\E L \in attached : L.id = last.arg

\* C34: a confirm whose promise is pending, or whose entry is in the kernel's
\* pending-confirm map, has its dialog displayed: its element is attached.
C34_NoPendingWithoutDialog ==
  \A c \in LayerIds :
    (confirms[c].outcome = "pending" \/ c \in pendingConfirms)
      => \E L \in attached : L.id = c

\* C35: when destroy() has returned, the kernel is not initialized, the
\* close-key listener is off the document, and the state store holds its
\* initial state with no patch pending, whatever threw on the way.
C35_DestroyCompletes ==
  last.op = "destroy" =>
    /\ ~initialized
    /\ ~keyListener
    /\ state = InitialState
    /\ pendingUpdates = << >>

\* C36: between destroys one ToastManager governs every toast: each toast that
\* is displayed, queued or has a timer pending belongs to the manager the
\* kernel holds, so the cap counts all of them, and clearToasts() removes all
\* of them and cancels all of their timers.
C36_SingleToastManager ==
  /\ \A t \in ToastIds :
       (\/ Contains(children, t)
        \/ timers[t] # "none"
        \/ \E m \in Managers : Contains(queue[m], t)) => owner[t] = toastManager
  /\ Len(children) <= config.maxToasts
  /\ last.op = "clearToasts" =>
       /\ children = << >>
       /\ \A t \in ToastIds : timers[t] = "none"

\* the functions that emit has called, in call order
Called == [i \in 1..Len(log) |-> log[i][2]]

\* C37: emit calls every listener that is registered when emit is called,
\* once each and in registration order, whatever the listeners throw or
\* unsubscribe, and emit does not throw.
C37_EmitCallsEveryListener ==
  last.op = "emit" =>
    /\ Called = [i \in 1..Len(last.prev.listeners) |-> last.prev.listeners[i].id]
    /\ ret # "threw"

\* C39: a get() made while no mutation record is queued returns what a scan of
\* the container finds now and leaves the container cached and observed;
\* after unobserve the entry and the observer are gone.
C39_CacheIsFresh ==
  /\ (last.op = "cacheGet" /\ ~cache.pending) =>
       /\ cache.got = scan(cache.dom)
       /\ cache.has /\ cache.observing
  /\ last.op = "unobserve" => ~cache.has /\ ~cache.observing

\* C38: a Tab press on the last focusable element of an active trap's
\* container is prevented and moves the focus to the first; a Shift+Tab
\* press on the first is prevented and moves it to the last; no other key
\* press is prevented: not elsewhere in the container, not in a container
\* with nothing focusable, not when the trap is not active.
C38_TabWraps ==
  last.op = "trapKey" =>
    LET was == last.prev.trap
        focusable == scan(cache.dom)
        n == Len(focusable)
    IN IF was.listening /\ n > 0 /\ last.arg = "Tab" /\ was.activeElement = focusable[n]
       THEN trap.defaultPrevented /\ trap.activeElement = focusable[1]
       ELSE IF /\ was.listening /\ n > 0 /\ last.arg = "Shift+Tab"
               /\ was.activeElement = focusable[1]
       THEN trap.defaultPrevented /\ trap.activeElement = focusable[n]
       ELSE ~trap.defaultPrevented

\* C40: an init() made while the document has no body initializes nothing;
\* when DOMContentLoaded runs the retries that such calls left, the kernel is
\* initialized and the body of init() has run once if the kernel was not
\* initialized yet and not at all if it was; an init() on an initialized
\* kernel runs nothing and leaves the overlay and the key listener as they are.
C40_InitOnceWhenReady ==
  /\ (last.op = "init" /\ ~doc.body) =>
       /\ last.inits = 0
       /\ ~initialized /\ ~built /\ ~overlay.el /\ ~keyListener
  /\ (last.op = "DOMContentLoaded" /\ last.arg > 0) =>
       /\ initialized
       /\ last.inits = (IF last.prev.initialized THEN 0 ELSE 1)
  /\ (last.op = "init" /\ last.prev.initialized) =>
       /\ last.inits = 0
       /\ initialized
       /\ overlay = last.prev.overlay

C40_TwoRetriesOneInit ==
  /\ last.op = "DOMContentLoaded" /\ last.arg = 2
  /\ ~last.prev.initialized
  /\ initialized /\ last.inits = 1

====
